---- MODULE Spec2Model ----
(***************************************************************************)
(* Model of the folder-based batch conversion engine of                    *)
(* batch-convert-to-avif: the worker pool of processFilesByFolder, the     *)
(* per-folder worker (processFilesInFolder, retryFailedFiles,              *)
(* checkFolderCompletion) and the staging protocol of convertFile.         *)
(*                                                                         *)
(* JavaScript runs one callback at a time: everything between two awaits   *)
(* is one atomic step.  Every action below is one such step, from the      *)
(* completion of an awaited operation up to the next await.                *)
(***************************************************************************)
EXTENDS Integers, Sequences, FiniteSets, TLC

\* ---------------------------------------------------------------- bounds
MaxFolders == 2      \* folders holding at least one convertible file
MaxTasks == 3        \* convertible files of the whole tree
MaxW == 2            \* worker counts explored: 1..MaxW
MaxSortFiles == 3    \* files per folder in the ordering specification
MaxPathLen == 4      \* length of the names given to sanitizePath
MaxDirs == 2         \* directories of the tree in the renaming specification
MaxVerifyDirs == 2   \* source directories in the verification specification
MaxWalkFiles == 2    \* convertible files the discovery walk yields
MaxSegments == 2     \* directory levels between the source root and a file
MaxQueueTasks == 3   \* tasks handed to the per-file queue
MaxPolls == 2        \* sleeps of waitForAll that are told apart
MaxCount == 5        \* files per directory in the verification specification

\* ------------------------------------------------------ program constants
MAX_RETRY_COUNT == 3
SKIP_EXISTING_FILES == TRUE
ALTERNATE_LIMIT == 100   \* while (counter < 100) of renameSpecialCharFolders
MAX_CHECK_RETRIES == 2

\* ------------------------------------------------------------ file names
\* A file name is a sequence of one-character strings.
DigitChars == <<"0", "1", "2", "3", "4", "5", "6", "7", "8", "9">>

IsDigit(c) == \E d \in 1..10 : DigitChars[d] = c

DigitVal(c) == (CHOOSE d \in 1..10 : DigitChars[d] = c) - 1

\* Letters compare by their base letter only (sensitivity: 'base').
BaseRank(c) ==
    CASE c \in {"a", "A"} -> 1
      [] c \in {"b", "B"} -> 2
      [] OTHER -> 3

RECURSIVE DigitRunLen(_)
DigitRunLen(s) ==
    IF s = <<>> \/ ~IsDigit(Head(s)) THEN 0 ELSE 1 + DigitRunLen(Tail(s))

RECURSIVE NumVal(_)
NumVal(s) ==
    IF s = <<>> THEN 0 ELSE 10 * NumVal(SubSeq(s, 1, Len(s) - 1)) + DigitVal(s[Len(s)])

\* Collation elements of a name under numeric collation: a run of digits is
\* one element carrying its numeric value, a letter is one element.
RECURSIVE CollationKey(_)
CollationKey(s) ==
    IF s = <<>> THEN <<>>
    ELSE IF IsDigit(Head(s))
         THEN LET n == DigitRunLen(s)
              IN  <<[num |-> TRUE, val |-> NumVal(SubSeq(s, 1, n))]>>
                      \o CollationKey(SubSeq(s, n + 1, Len(s)))
         ELSE <<[num |-> FALSE, val |-> BaseRank(Head(s))]>> \o CollationKey(Tail(s))

Sign(n) == IF n < 0 THEN -1 ELSE IF n > 0 THEN 1 ELSE 0

RECURSIVE CompareKeys(_, _)
CompareKeys(a, b) ==
    IF a = <<>> /\ b = <<>> THEN 0
    ELSE IF a = <<>> THEN -1
    ELSE IF b = <<>> THEN 1
    ELSE LET x == Head(a)
             y == Head(b)
             c == IF x.num = y.num THEN Sign(x.val - y.val)
                  ELSE IF x.num THEN -1 ELSE 1
         IN  IF c # 0 THEN c ELSE CompareKeys(Tail(a), Tail(b))

\* fileNameA.localeCompare(fileNameB, undefined, {numeric: true, sensitivity: 'base'})
localeCompare(a, b) == CompareKeys(CollationKey(a), CollationKey(b))

\* files.sort((a, b) => basename(a.inputPath).localeCompare(...)), lines 32-38.
\* Array.prototype.sort is stable: the place of a task is one more than the
\* number of tasks that compare smaller, or compare equal and came before it.
SortFiles(files) ==
    LET n == Len(files)
        before(j, i) ==
            LET c == localeCompare(files[j].name, files[i].name)
            IN  c < 0 \/ (c = 0 /\ j < i)
        place(i) == 1 + Cardinality({j \in 1..n : before(j, i)})
    IN  [k \in 1..n |-> files[CHOOSE i \in 1..n : place(i) = k]]

AssignIndexKeep(files) == files

AssignIndexReversed(files) ==
    [i \in 1..Len(files) |-> [files[i] EXCEPT !.originalIndex = Len(files) - i]]

\* files.forEach((task, index) => { task.originalIndex = index; })
AssignIndex(files) == [i \in 1..Len(files) |-> [files[i] EXCEPT !.originalIndex = i - 1]]

RECURSIVE toString(_)
toString(n) ==
    IF n < 10 THEN <<DigitChars[n + 1]>> ELSE toString(n \div 10) \o <<DigitChars[(n % 10) + 1]>>

RECURSIVE PadStart(_, _, _)
PadStart(s, len, c) == IF Len(s) >= len THEN s ELSE PadStart(<<c>> \o s, len, c)

\* `${(task.originalIndex + 1).toString().padStart(3, '0')}.avif`
TargetFileName(task) == PadStart(toString(task.originalIndex + 1), 3, "0")

\* join(task.outputPath, targetFileName)
FinalOutputPath(task) == <<task.outputPath, TargetFileName(task)>>

\* --------------------------------------------------------- sanitizePath
\* The characters of the class [<>:"\/\\|?*()[\]{}]
ForbiddenChars ==
    {"<", ">", ":", "\"", "/", "\\", "|", "?", "*", "(", ")", "[", "]", "{", "}"}

\* Characters \s matches and trim() strips (those that occur in the names here).
WhitespaceChars == {" ", "\t", "\n"}

ReplaceForbiddenKeep(s) == s

\* .replace(/[<>:"\/\\|?*()[\]{}]/g, " ")
ReplaceForbidden(s) == [i \in 1..Len(s) |-> IF s[i] \in ForbiddenChars THEN " " ELSE s[i]]

RECURSIVE SkipWhitespace(_)
SkipWhitespace(s) ==
    IF s # <<>> /\ Head(s) \in WhitespaceChars THEN SkipWhitespace(Tail(s)) ELSE s

\* .replace(/\s+/g, " "): every maximal run of whitespace becomes one space.
RECURSIVE CollapseWhitespace(_)
CollapseWhitespace(s) ==
    IF s = <<>> THEN <<>>
    ELSE IF Head(s) \in WhitespaceChars
         THEN <<" ">> \o CollapseWhitespace(SkipWhitespace(s))
         ELSE <<Head(s)>> \o CollapseWhitespace(Tail(s))

RECURSIVE TrimEnd(_)
TrimEnd(s) ==
    IF s # <<>> /\ s[Len(s)] \in WhitespaceChars THEN TrimEnd(SubSeq(s, 1, Len(s) - 1)) ELSE s

\* .trim()
Trim(s) == TrimEnd(SkipWhitespace(s))

sanitizePathReplaceLast(path) == Trim(ReplaceForbidden(CollapseWhitespace(path)))

\* sanitizePath, helpers.ts lines 12-16
sanitizePath(path) == Trim(CollapseWhitespace(ReplaceForbidden(path)))

\* ------------------------------------------------------------------ state
VARIABLES
    MAX_CONCURRENT_WORKERS, \* the worker count W in force for the run
    folderTasks,     \* FolderConversionTask[]: files, errorFiles, completed
    folderQueue,     \* folders not yet dequeued (indices into folderTasks)
    activeWorkers,   \* the pool's counter of folders in flight
    nextFolderIndex, \* number of folders handed to processSingleFolder
    successCount,    \* the pool's aggregate counters
    errorCount,
    skippedCount,
    resolved,        \* number of calls of the promise's resolve
    poolpc,          \* "start" before the start loop, "running" after it
    globalProgress,  \* ProgressInfo: current, total
    worker,          \* per folder: the frame of its processSingleFolder call
    targetTree,      \* files present in the target tree: <<directory, name>>
    staging,         \* per folder: staging directory of its latest convertFile
    errorLog,        \* per folder: the entries its worker appended to error.txt
    convertCalls,    \* history: convertFile calls per task
    progressed,      \* history: increments of globalProgress.current per task
    outcome,         \* history: latest outcome per task
    priorTree,       \* history: the target tree as the run found it
    sanitizeArg,     \* the string a caller passes to sanitizePath
    sanitizeOut,     \* what sanitizePath returned, call after call
    dirTree,         \* renaming pass: the directories of the tree, by path
    dirs,            \* renaming pass: the directory entries the walk collected
    dirIndex,        \* renaming pass: number of entries the loop has visited
    renamepc,        \* renaming pass: "idle", "run", "done", "rejected"
    usedNames,       \* renaming pass: Map of sanitized-name keys to counters
    renamedPaths,    \* renaming pass: Set of the original paths renamed
    renamePass,      \* renaming pass: 0 before the first, then 1, 2
    renameCalls,     \* history: the Deno.rename calls, with their pass
    sourceDirs,      \* verification: Map of source directory to file count
    targetDirs,      \* verification: Map of target directory to .avif count
    sourceTree,      \* verification: convertible files per source directory
    avifTree,        \* verification: .avif files per target directory
    checkAttempt,    \* verification: attempt of the walking loop
    mismatches,      \* verification: the DirectoryMismatch records
    verifypc,        \* verification: "idle", "walk", "report", "done"
    walkFiles,       \* discovery: the convertible files, in the order of the walk
    walkPos,         \* discovery: number of files the loop has handled
    tasks,           \* discovery: the ConversionTask list
    madeDirs,        \* discovery: the directories that exist, as paths from the current one
    dirAttempts,     \* history: how the directory creation went, file by file
    discoverypc,     \* discovery: "idle", "walk", "done"
    taskQueue        \* per-file queue: the TaskQueue object and the call that drives it

sanitizeVars == <<sanitizeArg, sanitizeOut>>

renameVars == <<dirTree, dirs, dirIndex, renamepc, renamePass, usedNames, renamedPaths,
               renameCalls>>

verifyVars == <<sourceDirs, targetDirs, sourceTree, avifTree, checkAttempt, mismatches, verifypc>>

discoveryVars == <<walkFiles, walkPos, tasks, madeDirs, dirAttempts, discoverypc>>

\* The variables of the stages before and after the worker pool.
otherStages == <<sanitizeVars, renameVars, verifyVars, discoveryVars, taskQueue>>

runVars == <<MAX_CONCURRENT_WORKERS, folderTasks, folderQueue, activeWorkers,
             nextFolderIndex, successCount, errorCount, skippedCount, resolved,
             poolpc, globalProgress, worker, targetTree, staging, errorLog,
             convertCalls, progressed, outcome, priorTree>>

vars == <<runVars, otherStages>>

poolVars == <<folderQueue, activeWorkers, nextFolderIndex, successCount,
              errorCount, skippedCount, resolved, poolpc>>

Folders == 1..Len(folderTasks)

DistinctLists(S, n) ==
    {l \in [1..n -> S] : \A i, j \in 1..n : i # j => l[i] # l[j]}

\* The number NaN: a value apart from the integers of the model; every
\* operator on numbers treats it on its own.
NaN == 0 - 999

\* Math.min(a, b)
Min(a, b) == IF a = NaN \/ b = NaN THEN NaN ELSE IF a <= b THEN a ELSE b

\* a < b on numbers: false when either side is NaN.
LessThan(a, b) == a # NaN /\ b # NaN /\ a < b

OutputPathShared(f) == 1

\* The directory the tasks of folder f write to (controller.ts computes it
\* from the folder's path below the source root; distinct folders with
\* sanitized names get distinct directories).
OutputPath(f) == f

\* Discovery: one task per file, in walk order, originalIndex 0.
NewTask(f, id, name) ==
    [id |-> id, name |-> name, outputPath |-> OutputPath(f), originalIndex |-> 0]

\* Grouping: one FolderConversionTask per folder.
NewFolderTask(f, names) ==
    [files |-> [i \in 1..Len(names) |-> NewTask(f, i, names[i])],
     errorFiles |-> <<>>,
     completed |-> FALSE]

IdleFrame ==
    [pc |-> "queued", phase |-> "first", i |-> 0, attempt |-> 0,
     result |-> [successCount |-> 0, errorCount |-> 0, skippedCount |-> 0],
     retry |-> [successCount |-> 0, remainingErrors |-> 0],
     check |-> "none", reads |-> 0]

NoStaging == [exists |-> FALSE, files |-> {}]

\* The names a walk yields for a folder of n files: n, n-1, .., 1.
WalkNames(n) == [i \in 1..n |-> toString(n + 1 - i)]

\* Every output path a run over the given folders can produce.
AllOutputs(ft) ==
    UNION {{<<OutputPath(f), PadStart(toString(k), 3, "0")>> : k \in 1..Len(ft[f].files)} :
              f \in 1..Len(ft)}

\* tasks.length: the number of tasks found at discovery.
RECURSIVE TaskCount(_)
TaskCount(ft) ==
    IF ft = <<>> THEN 0 ELSE Len(Head(ft).files) + TaskCount(Tail(ft))

\* No sanitizePath call is under observation.
SanitizeIdle == sanitizeArg = <<>> /\ sanitizeOut = <<>>

\* The renaming pass is over (or found nothing to visit).
RenameIdle ==
    /\ dirTree = <<>>
    /\ dirs = <<>>
    /\ dirIndex = 0
    /\ renamepc = "idle"
    /\ renamePass = 0
    /\ usedNames = <<>>
    /\ renamedPaths = {}
    /\ renameCalls = {}

\* checkDirectoryCompletion has not been called.
VerifyIdle ==
    /\ sourceDirs = <<>>
    /\ targetDirs = <<>>
    /\ sourceTree = <<>>
    /\ avifTree = <<>>
    /\ checkAttempt = 0
    /\ mismatches = <<>>
    /\ verifypc = "idle"

\* The discovery loop is not under observation.
DiscoveryIdle ==
    /\ walkFiles = <<>>
    /\ walkPos = 0
    /\ tasks = <<>>
    /\ madeDirs = {}
    /\ dirAttempts = <<>>
    /\ discoverypc = "idle"

\* new TaskQueue(maxConcurrent, sourceDir, progressInfo) as processInParallel
\* builds it (part_000, lines 33-42 and 165-171): the fields of the queue,
\* the ProgressInfo it shares with its caller, and the position of
\* processInParallel (added: tasks its loop has passed to add; pc).  task is
\* the task runNext holds, runs the number of convertFile calls per task and
\* polls the number of sleeps of waitForAll.
NewTaskQueue(maxConcurrent, total) ==
    [maxConcurrent |-> maxConcurrent,
     queue |-> <<>>,
     running |-> 0,
     results |-> [success |-> 0, errors |-> 0],
     progressInfo |-> [current |-> 0, total |-> total],
     added |-> 0,
     task |-> 0,
     pc |-> "loop",
     runs |-> [t \in 1..total |-> 0],
     polls |-> 0]

\* The per-file queue is not under observation.
QueueIdle == taskQueue = [NewTaskQueue(1, 0) EXCEPT !.pc = "idle"]

InitFrom(ft, W, prior) ==
    /\ MAX_CONCURRENT_WORKERS = W
    /\ folderTasks = ft
    /\ folderQueue = [f \in 1..Len(ft) |-> f]
    /\ activeWorkers = 0
    /\ nextFolderIndex = 0
    /\ successCount = 0
    /\ errorCount = 0
    /\ skippedCount = 0
    /\ resolved = 0
    /\ poolpc = "start"
    /\ globalProgress = [current |-> 0, total |-> TaskCount(ft)]
    /\ worker = [f \in 1..Len(ft) |-> IdleFrame]
    /\ targetTree = prior
    /\ priorTree = prior
    /\ staging = [f \in 1..Len(ft) |-> NoStaging]
    /\ errorLog = [f \in 1..Len(ft) |-> <<>>]
    /\ convertCalls = [f \in 1..Len(ft) |-> [i \in 1..Len(ft[f].files) |-> 0]]
    /\ progressed = [f \in 1..Len(ft) |-> [i \in 1..Len(ft[f].files) |-> 0]]
    /\ outcome = [f \in 1..Len(ft) |-> [i \in 1..Len(ft[f].files) |-> "none"]]

RECURSIVE SumTo(_, _)
SumTo(sz, n) == IF n = 0 THEN 0 ELSE sz[n] + SumTo(sz, n - 1)

FolderSizesFit(sz) == SumTo(sz, Cardinality(DOMAIN sz)) <= MaxTasks

\* The state when processFilesByFolder has grouped the discovered tasks:
\* any number of folders and files, any worker count, and a target tree
\* holding any of the outputs an earlier run may have left.
Init ==
    \E nf \in 1..MaxFolders :
        \E sizes \in {sz \in [1..nf -> 1..MaxTasks] : FolderSizesFit(sz)} :
            \E W \in 1..MaxW :
                LET ft == [f \in 1..nf |-> NewFolderTask(f, WalkNames(sizes[f]))]
                IN  /\ \E prior \in SUBSET AllOutputs(ft) : InitFrom(ft, W, prior)
                    /\ SanitizeIdle
                    /\ RenameIdle
                    /\ VerifyIdle
                    /\ DiscoveryIdle
                    /\ QueueIdle

\* ------------------------------------------------- the per-folder worker
Task(f) ==
    IF worker[f].phase = "first" THEN folderTasks[f].files[worker[f].i]
    ELSE folderTasks[f].errorFiles[worker[f].i]

Called(f, task) == [convertCalls EXCEPT ![f][task.id] = @ + 1]

\* folder-processor.ts line 84: globalProgress.current++
CountProgress(f, task) ==
    /\ globalProgress' = [globalProgress EXCEPT !.current = @ + 1]
    /\ progressed' = [progressed EXCEPT ![f][task.id] = @ + 1]

RetrySuccessCountsProgress(f, task) == CountProgress(f, task)

\* retryFailedFiles lines 122-123: a successful retry leaves the counter alone.
RetrySuccessProgress(f, task) == UNCHANGED <<globalProgress, progressed>>

\* The frame of a folder when its processSingleFolder call reaches its first
\* await, in the first iteration of the loop of processFilesInFolder.
BeginFrame == [IdleFrame EXCEPT !.pc = "exists", !.i = 1]

\* processFilesInFolder lines 32-43
BeginFolder(folderTask) == [folderTask EXCEPT !.files = AssignIndex(SortFiles(@))]

\* retryFailedFiles: the loop moves to the next failed task, or ends and
\* awaits showProgress (line 140).
NextRetryTask(f, fr) ==
    IF fr.i < Len(folderTasks[f].errorFiles)
    THEN /\ worker' = [worker EXCEPT ![f] = [fr EXCEPT !.i = @ + 1, !.attempt = 0, !.pc = "stage"]]
         /\ convertCalls' = Called(f, folderTasks[f].errorFiles[fr.i + 1])
    ELSE /\ worker' = [worker EXCEPT ![f] = [fr EXCEPT !.pc = "progress"]]
         /\ UNCHANGED convertCalls

MoreAttemptsOneExtra(fr) == fr.attempt < MAX_RETRY_COUNT

\* for (let attempt = 0; attempt < MAX_RETRY_COUNT; attempt++), line 112: the
\* loop test after attempt++
MoreAttempts(fr) == fr.attempt + 1 < MAX_RETRY_COUNT

\* retryFailedFiles line 112: attempt++, then attempt < MAX_RETRY_COUNT decides
\* between another convertFile call for the task and the next failed task.
RetryLoopContinues(f, fr) ==
    IF MoreAttempts(fr)
    THEN /\ worker' = [worker EXCEPT ![f] = [fr EXCEPT !.attempt = @ + 1, !.pc = "stage"]]
         /\ convertCalls' = Called(f, folderTasks[f].errorFiles[fr.i])
    ELSE NextRetryTask(f, fr)

EveryAttempt(fr) == TRUE

\* attempt === MAX_RETRY_COUNT - 1, line 128
IsLastAttempt(fr) == fr.attempt = MAX_RETRY_COUNT - 1

\* convertFile throws: the catch of the caller runs up to its next await.
ConvertFileThrows(f) ==
    LET task == Task(f)
        fr == worker[f]
    IN  IF fr.phase = "first"
        THEN \* processFilesInFolder lines 68-76
             /\ worker' = [worker EXCEPT ![f].result.errorCount = @ + 1, ![f].pc = "log"]
             /\ folderTasks' = [folderTasks EXCEPT ![f].errorFiles = Append(@, task)]
             /\ outcome' = [outcome EXCEPT ![f][task.id] = "error"]
             /\ UNCHANGED <<convertCalls, globalProgress, progressed>>
        ELSE \* retryFailedFiles lines 124-135
             /\ IF IsLastAttempt(fr)
                THEN /\ worker' = [worker EXCEPT ![f].pc = "log"]
                     /\ UNCHANGED convertCalls
                ELSE RetryLoopContinues(f, fr)
             /\ UNCHANGED <<folderTasks, outcome, globalProgress, progressed>>

\* convertFile returns: the caller runs up to its next await.
ConvertFileReturns(f) ==
    LET task == Task(f)
        fr == worker[f]
    IN  IF fr.phase = "first"
        THEN \* processFilesInFolder lines 66, 84-85
             /\ worker' = [worker EXCEPT ![f].result.successCount = @ + 1, ![f].pc = "progress"]
             /\ outcome' = [outcome EXCEPT ![f][task.id] = "success"]
             /\ CountProgress(f, task)
             /\ UNCHANGED <<folderTasks, convertCalls>>
        ELSE \* retryFailedFiles lines 117-123
             /\ NextRetryTask(f, [fr EXCEPT !.retry.successCount = @ + 1,
                                            !.retry.remainingErrors = @ - 1])
             /\ outcome' = [outcome EXCEPT ![f][task.id] = "success"]
             /\ RetrySuccessProgress(f, task)
             /\ UNCHANGED folderTasks

\* await exists(finalOutputPath) answers (processFilesInFolder lines 56-65).
CheckExists(f) ==
    /\ worker[f].pc = "exists"
    /\ LET task == Task(f)
       IN  IF SKIP_EXISTING_FILES /\ FinalOutputPath(task) \in targetTree
           THEN /\ worker' = [worker EXCEPT ![f].result.skippedCount = @ + 1,
                                            ![f].pc = "progress"]
                /\ outcome' = [outcome EXCEPT ![f][task.id] = "skipped"]
                /\ CountProgress(f, task)
                /\ UNCHANGED convertCalls
           ELSE /\ worker' = [worker EXCEPT ![f].pc = "stage"]
                /\ convertCalls' = Called(f, task)
                /\ UNCHANGED <<outcome, globalProgress, progressed>>
    /\ UNCHANGED <<otherStages, priorTree, MAX_CONCURRENT_WORKERS, folderTasks, poolVars, targetTree, staging, errorLog>>

\* convertFile lines 35-41: the staging directory is made and the input is
\* copied into it under a simple name.
StageOk(f) ==
    /\ worker[f].pc = "stage"
    /\ staging' = [staging EXCEPT ![f] = [exists |-> TRUE, files |-> {"temp_file"}]]
    /\ worker' = [worker EXCEPT ![f].pc = "encode"]
    /\ UNCHANGED <<otherStages, priorTree, MAX_CONCURRENT_WORKERS, folderTasks, poolVars, globalProgress, targetTree,
                   errorLog, convertCalls, progressed, outcome>>

\* copyToTemp throws (lines 24-27): the staging directory stays, empty.
StageFail(f) ==
    /\ worker[f].pc = "stage"
    /\ staging' = [staging EXCEPT ![f] = [exists |-> TRUE, files |-> {}]]
    /\ ConvertFileThrows(f)
    /\ UNCHANGED <<otherStages, priorTree, MAX_CONCURRENT_WORKERS, poolVars, targetTree, errorLog>>

EncoderWritesFinal(tree, task) == tree \cup {FinalOutputPath(task)}

\* The encoder is given --output=<staging directory> (lines 58-75): whatever
\* it writes, it writes there; the target tree is not touched.
EncoderWrites(tree, task) == tree

\* The encoder exits with success and has written temp_file.avif (line 77).
EncodeOk(f) ==
    /\ worker[f].pc = "encode"
    /\ staging' = [staging EXCEPT ![f].files = @ \cup {"temp_file.avif"}]
    /\ targetTree' = EncoderWrites(targetTree, Task(f))
    /\ worker' = [worker EXCEPT ![f].pc = "verify"]
    /\ UNCHANGED <<otherStages, priorTree, MAX_CONCURRENT_WORKERS, folderTasks, poolVars, globalProgress, errorLog,
                   convertCalls, progressed, outcome>>

\* The encoder exits with success without having written its output.
EncodeNoOutput(f) ==
    /\ worker[f].pc = "encode"
    /\ targetTree' = EncoderWrites(targetTree, Task(f))
    /\ worker' = [worker EXCEPT ![f].pc = "verify"]
    /\ UNCHANGED <<otherStages, priorTree, MAX_CONCURRENT_WORKERS, folderTasks, poolVars, globalProgress, staging,
                   errorLog, convertCalls, progressed, outcome>>

\* The encoder exits with failure (lines 102-126): the staging directory is
\* removed and convertFile throws.
EncodeFail(f) ==
    /\ worker[f].pc = "encode"
    /\ staging' = [staging EXCEPT ![f] = NoStaging]
    /\ targetTree' = EncoderWrites(targetTree, Task(f))
    /\ ConvertFileThrows(f)
    /\ UNCHANGED <<otherStages, priorTree, MAX_CONCURRENT_WORKERS, poolVars, errorLog>>

StagedOutputAssumed(f) == TRUE

\* exists(tempAvifFilePath), line 132
StagedOutputExists(f) == "temp_file.avif" \in staging[f].files

\* await exists(tempAvifFilePath) answers (lines 129-138).
Verify(f) ==
    /\ worker[f].pc = "verify"
    /\ IF StagedOutputExists(f)
       THEN /\ worker' = [worker EXCEPT ![f].pc = "move"]
            /\ UNCHANGED <<folderTasks, outcome, convertCalls, globalProgress, progressed>>
       ELSE ConvertFileThrows(f)
    /\ UNCHANGED <<otherStages, priorTree, MAX_CONCURRENT_WORKERS, poolVars, targetTree, staging, errorLog>>

\* move(tempAvifFilePath, finalOutputPath, {overwrite: true}) succeeds and the
\* staging directory is removed (lines 141-145).
MoveOk(f) ==
    /\ worker[f].pc = "move"
    /\ targetTree' = targetTree \cup {FinalOutputPath(Task(f))}
    /\ staging' = [staging EXCEPT ![f] = NoStaging]
    /\ ConvertFileReturns(f)
    /\ UNCHANGED <<otherStages, priorTree, MAX_CONCURRENT_WORKERS, poolVars, errorLog>>

\* move throws (lines 146-149): with overwrite it has removed the destination
\* before renaming; the staging directory stays.
MoveFail(f) ==
    /\ worker[f].pc = "move"
    /\ targetTree' = targetTree \ {FinalOutputPath(Task(f))}
    /\ ConvertFileThrows(f)
    /\ UNCHANGED <<otherStages, priorTree, MAX_CONCURRENT_WORKERS, poolVars, staging, errorLog>>

\* await writeErrorLog(...) returns: the entry is in error.txt
\* (processFilesInFolder lines 76-85, retryFailedFiles lines 128-134).
LogOk(f) ==
    /\ worker[f].pc = "log"
    /\ LET task == Task(f)
           fr == worker[f]
       IN  /\ errorLog' = [errorLog EXCEPT
                  ![f] = Append(@, [id |-> task.id, final |-> fr.phase = "retry"])]
           /\ IF fr.phase = "first"
              THEN /\ worker' = [worker EXCEPT ![f].pc = "progress"]
                   /\ CountProgress(f, task)
                   /\ UNCHANGED convertCalls
              ELSE /\ RetryLoopContinues(f, fr)
                   /\ UNCHANGED <<globalProgress, progressed>>
    /\ UNCHANGED <<otherStages, priorTree, MAX_CONCURRENT_WORKERS, folderTasks, poolVars, targetTree, staging, outcome>>

\* await writeErrorLog(...) throws inside the catch block (Deno.writeTextFile
\* fails): the error leaves processFilesInFolder or retryFailedFiles, and
\* with it processSingleFolder, whose promise rejects.
LogFail(f) ==
    /\ worker[f].pc = "log"
    /\ worker' = [worker EXCEPT ![f].pc = "rejected"]
    /\ UNCHANGED <<otherStages, priorTree, MAX_CONCURRENT_WORKERS, folderTasks, poolVars, globalProgress, targetTree,
                   staging, errorLog, convertCalls, progressed, outcome>>

FoldRetrySuccessOnly(result, retryResult) ==
    [result EXCEPT !.successCount = @ + retryResult.successCount]

\* processSingleFolder lines 66-67: the retry pass's successes move from the
\* folder's error count to its success count.
FoldRetry(result, retryResult) ==
    [result EXCEPT !.successCount = @ + retryResult.successCount,
                   !.errorCount = @ - retryResult.successCount]

\* await showProgress(globalProgress) returns (processFilesInFolder line 85,
\* retryFailedFiles line 140); the caller runs up to its next await, through
\* processSingleFolder lines 59-79 when the pass is over.
ProgressOk(f) ==
    /\ worker[f].pc = "progress"
    /\ LET fr == worker[f]
           ft == folderTasks[f]
       IN  IF fr.phase = "first"
           THEN IF fr.i < Len(ft.files)
                THEN /\ worker' = [worker EXCEPT ![f].i = @ + 1, ![f].pc = "exists"]
                     /\ UNCHANGED convertCalls
                ELSE IF fr.result.errorCount > 0
                THEN /\ worker' = [worker EXCEPT ![f] =
                            [fr EXCEPT !.phase = "retry", !.i = 1, !.attempt = 0,
                                       !.retry = [successCount |-> 0,
                                                  remainingErrors |-> Len(ft.errorFiles)],
                                       !.pc = "stage"]]
                     /\ convertCalls' = Called(f, ft.errorFiles[1])
                ELSE /\ worker' = [worker EXCEPT ![f].pc = "check"]
                     /\ UNCHANGED convertCalls
           ELSE /\ worker' = [worker EXCEPT ![f] =
                       [fr EXCEPT !.result = FoldRetry(@, fr.retry), !.pc = "check"]]
                /\ UNCHANGED convertCalls
    /\ UNCHANGED <<otherStages, priorTree, MAX_CONCURRENT_WORKERS, folderTasks, poolVars, globalProgress, targetTree,
                   staging, errorLog, progressed, outcome>>

\* await showProgress(globalProgress) throws (Deno.consoleSize() has no
\* terminal to measure): the call is outside every try block, so the promise
\* of processSingleFolder rejects.
ProgressFail(f) ==
    /\ worker[f].pc = "progress"
    /\ worker' = [worker EXCEPT ![f].pc = "rejected"]
    /\ UNCHANGED <<otherStages, priorTree, MAX_CONCURRENT_WORKERS, folderTasks, poolVars, globalProgress, targetTree,
                   staging, errorLog, convertCalls, progressed, outcome>>

\* join(sourceDir + "_avif", relative(sourceDir, folderPath)): the folder's
\* own path below the target root (folder names here are sanitized already).
TargetFolderPath(f) == f

\* checkFolderCompletion reads the target folder once (lines 161-171: a
\* failed read returns false) and compares the counts; processSingleFolder
\* then marks the folder and returns its result.  reads counts the
\* Deno.readDir calls on the target folder.
CheckFolder(f) ==
    /\ worker[f].pc = "check"
    /\ \E readOk \in BOOLEAN :
          LET sourceCount == Len(folderTasks[f].files)
              targetCount == Cardinality({p \in targetTree : p[1] = TargetFolderPath(f)})
              verdict == IF ~readOk THEN "readfailed"
                         ELSE IF sourceCount # targetCount THEN "mismatch" ELSE "match"
          IN  worker' = [worker EXCEPT ![f].check = verdict, ![f].reads = @ + 1,
                                       ![f].pc = "fulfilled"]
    /\ folderTasks' = [folderTasks EXCEPT ![f].completed = TRUE]
    /\ UNCHANGED <<otherStages, priorTree, MAX_CONCURRENT_WORKERS, poolVars, globalProgress, targetTree, staging,
                   errorLog, convertCalls, progressed, outcome>>

\* ------------------------------------------------------- the worker pool
PoolState(aw) ==
    [folderQueue |-> folderQueue, activeWorkers |-> aw,
     nextFolderIndex |-> nextFolderIndex, resolved |-> resolved]

PoolIdleAlways(st) == TRUE

\* activeWorkers === 0, line 105
PoolIdle(st) == st.activeWorkers = 0

Pop(q) == SubSeq(q, 1, Len(q) - 1)

\* folderQueue.shift(), line 118: what is left in the queue
Shift(q) == Tail(q)

processNextFolderPeek(st) ==
    IF st.folderQueue = <<>>
    THEN IF PoolIdle(st) THEN [st EXCEPT !.resolved = @ + 1] ELSE st
    ELSE [st EXCEPT !.activeWorkers = @ + 1, !.nextFolderIndex = @ + 1]

\* processNextFolder (part_001 lines 102-125): the pool's own bookkeeping.
processNextFolder(st) ==
    IF st.folderQueue = <<>>
    THEN IF PoolIdle(st) THEN [st EXCEPT !.resolved = @ + 1] ELSE st
    ELSE [st EXCEPT !.folderQueue = Shift(@),
                    !.activeWorkers = @ + 1,
                    !.nextFolderIndex = @ + 1]

Queued(q) == {q[k] : k \in 1..Len(q)}

\* The pool after the calls of processNextFolder of one step: every folder
\* the step took off the queue has had processSingleFolder called on it,
\* which runs up to its first await.
SetPool(st, wk) ==
    /\ folderQueue' = st.folderQueue
    /\ activeWorkers' = st.activeWorkers
    /\ nextFolderIndex' = st.nextFolderIndex
    /\ resolved' = st.resolved
    /\ LET dequeued == Queued(folderQueue) \ Queued(st.folderQueue)
       IN  /\ folderTasks' = [f \in Folders |->
                  IF f \in dequeued THEN BeginFolder(folderTasks[f]) ELSE folderTasks[f]]
           /\ worker' = [f \in Folders |-> IF f \in dequeued THEN BeginFrame ELSE wk[f]]

StartBoundAll == Len(folderTasks)

\* Math.min(MAX_CONCURRENT_WORKERS, folderTasks.length), line 155
StartBound == Min(MAX_CONCURRENT_WORKERS, Len(folderTasks))

RECURSIVE StartLoop(_, _)
StartLoop(st, i) ==
    IF LessThan(i, StartBound) THEN StartLoop(processNextFolder(st), i + 1) ELSE st

\* The promise executor (lines 100-158): the start loop runs to its end
\* without an await in between.
Start ==
    /\ poolpc = "start"
    /\ poolpc' = "running"
    /\ SetPool(StartLoop(PoolState(activeWorkers), 0), worker)
    /\ UNCHANGED <<otherStages, priorTree, MAX_CONCURRENT_WORKERS, successCount, errorCount, skippedCount,
                   globalProgress, targetTree, staging, errorLog, convertCalls,
                   progressed, outcome>>

KeepSlot(n) == n

\* activeWorkers--, lines 138 and 147
ReleaseSlot(n) == n - 1

\* .then of processSingleFolder (lines 126-142)
Then(f) ==
    /\ worker[f].pc = "fulfilled"
    /\ successCount' = successCount + worker[f].result.successCount
    /\ errorCount' = errorCount + worker[f].result.errorCount
    /\ skippedCount' = skippedCount + worker[f].result.skippedCount
    /\ SetPool(processNextFolder(PoolState(ReleaseSlot(activeWorkers))),
               [worker EXCEPT ![f].pc = "done"])
    /\ UNCHANGED <<otherStages, priorTree, MAX_CONCURRENT_WORKERS, poolpc, globalProgress, targetTree, staging,
                   errorLog, convertCalls, progressed, outcome>>

CatchHalts(st) == st

\* what .catch does after releasing the slot: processNextFolder(), line 150
CatchContinues(st) == processNextFolder(st)

\* .catch of processSingleFolder (lines 143-151)
Catch(f) ==
    /\ worker[f].pc = "rejected"
    /\ SetPool(CatchContinues(PoolState(ReleaseSlot(activeWorkers))),
               [worker EXCEPT ![f].pc = "failed"])
    /\ UNCHANGED <<otherStages, priorTree, MAX_CONCURRENT_WORKERS, poolpc, successCount, errorCount, skippedCount,
                   globalProgress, targetTree, staging, errorLog, convertCalls,
                   progressed, outcome>>

\* One step of the worker of folder f: the completion of the operation it
\* is awaiting.
FolderStep(f) ==
    \/ CheckExists(f)
    \/ StageOk(f)
    \/ StageFail(f)
    \/ EncodeOk(f)
    \/ EncodeNoOutput(f)
    \/ EncodeFail(f)
    \/ Verify(f)
    \/ MoveOk(f)
    \/ MoveFail(f)
    \/ LogOk(f)
    \/ LogFail(f)
    \/ ProgressOk(f)
    \/ ProgressFail(f)
    \/ CheckFolder(f)
    \/ Then(f)
    \/ Catch(f)

Next ==
    \/ Start
    \/ \E f \in Folders : FolderStep(f)

Spec == Init /\ [][Next]_vars

\* Every awaited operation completes (returns or throws) and every settled
\* promise has its reaction run: the event loop leaves no ready callback
\* waiting forever.
LiveSpec == Init /\ [][Next]_vars /\ WF_vars(Next)

\* ------------------------------------------------ the sequential variant
\* processFilesByFolder of batch-processor.ts: the same folder functions
\* (processFilesInFolder, retryFailedFiles, checkFolderCompletion) under a
\* loop over the folders.  poolpc is "sequential" throughout, the queue and
\* the worker counter are not used, nextFolderIndex is i + 1 for the loop
\* variable i, and resolved counts the return of the function.  A folder is
\* "before" while line 51 awaits showProgress and "after" while line 84 does.
SeqInitFrom(ft, prior) ==
    /\ MAX_CONCURRENT_WORKERS = 1
    /\ folderTasks = ft
    /\ folderQueue = <<>>
    /\ activeWorkers = 0
    /\ nextFolderIndex = 1
    /\ successCount = 0
    /\ errorCount = 0
    /\ skippedCount = 0
    /\ resolved = 0
    /\ poolpc = "sequential"
    /\ globalProgress = [current |-> 0, total |-> TaskCount(ft)]
    /\ worker = [f \in 1..Len(ft) |-> IF f = 1 THEN [IdleFrame EXCEPT !.pc = "before"]
                                      ELSE IdleFrame]
    /\ targetTree = prior
    /\ priorTree = prior
    /\ staging = [f \in 1..Len(ft) |-> NoStaging]
    /\ errorLog = [f \in 1..Len(ft) |-> <<>>]
    /\ convertCalls = [f \in 1..Len(ft) |-> [i \in 1..Len(ft[f].files) |-> 0]]
    /\ progressed = [f \in 1..Len(ft) |-> [i \in 1..Len(ft[f].files) |-> 0]]
    /\ outcome = [f \in 1..Len(ft) |-> [i \in 1..Len(ft[f].files) |-> "none"]]

\* await showProgress(globalProgress) of line 51 returns: processFilesInFolder
\* is called and runs up to its first await.
SeqShowBefore(f) ==
    /\ poolpc = "sequential"
    /\ worker[f].pc = "before"
    /\ worker' = [worker EXCEPT ![f] = BeginFrame]
    /\ folderTasks' = [folderTasks EXCEPT ![f] = BeginFolder(@)]
    /\ UNCHANGED <<otherStages, priorTree, MAX_CONCURRENT_WORKERS, poolVars, globalProgress,
                   targetTree, staging, errorLog, convertCalls, progressed, outcome>>

\* Lines 56-58
AddResult(n, result) == n + result

AddRetryErrorsKept(n, retryResult) == n

\* Line 66: errorCount -= retryResult.successCount
SubtractRetry(n, retryResult) == n - retryResult.successCount

\* await showProgress(globalProgress) returns inside a folder function
\* (processFilesInFolder line 85, retryFailedFiles line 140); when the pass
\* is over the loop body goes on: lines 56-63, or lines 65-78.
SeqProgressOk(f) ==
    /\ poolpc = "sequential"
    /\ worker[f].pc = "progress"
    /\ LET fr == worker[f]
           ft == folderTasks[f]
       IN  IF fr.phase = "first"
           THEN IF fr.i < Len(ft.files)
                THEN /\ worker' = [worker EXCEPT ![f].i = @ + 1, ![f].pc = "exists"]
                     /\ UNCHANGED <<convertCalls, successCount, errorCount, skippedCount>>
                ELSE /\ successCount' = AddResult(successCount, fr.result.successCount)
                     /\ errorCount' = AddResult(errorCount, fr.result.errorCount)
                     /\ skippedCount' = AddResult(skippedCount, fr.result.skippedCount)
                     /\ IF fr.result.errorCount > 0
                        THEN /\ worker' = [worker EXCEPT ![f] =
                                    [fr EXCEPT !.phase = "retry", !.i = 1, !.attempt = 0,
                                               !.retry = [successCount |-> 0,
                                                          remainingErrors |-> Len(ft.errorFiles)],
                                               !.pc = "stage"]]
                             /\ convertCalls' = Called(f, ft.errorFiles[1])
                        ELSE /\ worker' = [worker EXCEPT ![f].pc = "check"]
                             /\ UNCHANGED convertCalls
           ELSE /\ successCount' = AddResult(successCount, fr.retry.successCount)
                /\ errorCount' = SubtractRetry(errorCount, fr.retry)
                /\ worker' = [worker EXCEPT ![f].pc = "check"]
                /\ UNCHANGED <<convertCalls, skippedCount>>
    /\ UNCHANGED <<otherStages, priorTree, MAX_CONCURRENT_WORKERS, folderTasks, folderQueue,
                   activeWorkers, nextFolderIndex, resolved, poolpc, globalProgress,
                   targetTree, staging, errorLog, progressed, outcome>>

\* checkFolderCompletion answers (line 78), the folder is marked (line 81)
\* and line 84 awaits showProgress.
SeqCheckFolder(f) ==
    /\ poolpc = "sequential"
    /\ worker[f].pc = "check"
    /\ \E readOk \in BOOLEAN :
          LET sourceCount == Len(folderTasks[f].files)
              targetCount == Cardinality({p \in targetTree : p[1] = TargetFolderPath(f)})
              verdict == IF ~readOk THEN "readfailed"
                         ELSE IF sourceCount # targetCount THEN "mismatch" ELSE "match"
          IN  worker' = [worker EXCEPT ![f].check = verdict, ![f].reads = @ + 1,
                                       ![f].pc = "after"]
    /\ folderTasks' = [folderTasks EXCEPT ![f].completed = TRUE]
    /\ UNCHANGED <<otherStages, priorTree, MAX_CONCURRENT_WORKERS, poolVars, globalProgress,
                   targetTree, staging, errorLog, convertCalls, progressed, outcome>>

\* await showProgress(globalProgress) of line 84 returns: the next iteration
\* runs up to line 51, or the function returns its counters (lines 87-94).
SeqShowAfter(f) ==
    /\ poolpc = "sequential"
    /\ worker[f].pc = "after"
    /\ IF f < Len(folderTasks)
       THEN /\ worker' = [worker EXCEPT ![f].pc = "done", ![f + 1].pc = "before"]
            /\ nextFolderIndex' = nextFolderIndex + 1
            /\ UNCHANGED resolved
       ELSE /\ worker' = [worker EXCEPT ![f].pc = "done"]
            /\ resolved' = resolved + 1
            /\ UNCHANGED nextFolderIndex
    /\ UNCHANGED <<otherStages, priorTree, MAX_CONCURRENT_WORKERS, folderTasks, folderQueue,
                   activeWorkers, successCount, errorCount, skippedCount, poolpc,
                   globalProgress, targetTree, staging, errorLog, convertCalls, progressed,
                   outcome>>

\* showProgress throws at line 51 or 84: nothing catches it, the promise of
\* processFilesByFolder rejects and the loop is over.
SeqShowThrows(f) ==
    /\ poolpc = "sequential"
    /\ worker[f].pc \in {"before", "after"}
    /\ worker' = [worker EXCEPT ![f].pc = "rejected"]
    /\ UNCHANGED <<otherStages, priorTree, MAX_CONCURRENT_WORKERS, folderTasks, poolVars,
                   globalProgress, targetTree, staging, errorLog, convertCalls, progressed,
                   outcome>>

\* One step of the sequential variant in folder f.  What throws out of a
\* folder function (LogFail, ProgressFail) rejects the whole call.
SeqStep(f) ==
    \/ SeqShowBefore(f)
    \/ CheckExists(f)
    \/ StageOk(f)
    \/ StageFail(f)
    \/ EncodeOk(f)
    \/ EncodeNoOutput(f)
    \/ EncodeFail(f)
    \/ Verify(f)
    \/ MoveOk(f)
    \/ MoveFail(f)
    \/ LogOk(f)
    \/ LogFail(f)
    \/ SeqProgressOk(f)
    \/ ProgressFail(f)
    \/ SeqCheckFolder(f)
    \/ SeqShowAfter(f)
    \/ SeqShowThrows(f)

\* Both variants of processFilesByFolder on the same task lists: the worker
\* pool with MAX_CONCURRENT_WORKERS = 1 and the sequential loop.
VariantsInit ==
    \E nf \in 1..MaxFolders :
        \E sizes \in {sz \in [1..nf -> 1..MaxTasks] : FolderSizesFit(sz)} :
            LET ft == [f \in 1..nf |-> NewFolderTask(f, WalkNames(sizes[f]))]
            IN  /\ \E prior \in SUBSET AllOutputs(ft) :
                       InitFrom(ft, 1, prior) \/ SeqInitFrom(ft, prior)
                /\ SanitizeIdle
                /\ RenameIdle
                /\ VerifyIdle
                /\ DiscoveryIdle
                /\ QueueIdle

VariantsNext ==
    \/ poolpc # "sequential" /\ Next
    \/ poolpc = "sequential" /\ \E f \in Folders : SeqStep(f)

VariantsSpec == VariantsInit /\ [][VariantsNext]_vars

\* ------------------------------------------- the ordering specification
\* One folder, one worker, an empty target tree and a reliable encoder; the
\* file names of the folder range over every list of distinct names of
\* NameUniverse, in any walk order.
NameUniverse ==
    {<<"1">>, <<"0", "1">>, <<"2">>, <<"1", "0">>,
     <<"a">>, <<"a", "2">>, <<"a", "1", "0">>, <<"B">>}

SortInit ==
    \E n \in 1..MaxSortFiles :
        \E names \in DistinctLists(NameUniverse, n) :
            /\ InitFrom(<<NewFolderTask(1, names)>>, 1, {})
            /\ SanitizeIdle
            /\ RenameIdle
            /\ VerifyIdle
            /\ DiscoveryIdle
            /\ QueueIdle

SortNext ==
    \/ Start
    \/ \E f \in Folders :
          \/ CheckExists(f)
          \/ StageOk(f)
          \/ EncodeOk(f)
          \/ Verify(f)
          \/ MoveOk(f)
          \/ ProgressOk(f)
          \/ CheckFolder(f)
          \/ Then(f)

SortSpec == SortInit /\ [][SortNext]_vars

\* ----------------------------------------------- no conversion run going
\* The variables of the worker pool while no call of processFilesByFolder
\* is in progress.
NoRun == InitFrom(<<>>, 1, {})

\* -------------------------------------------- the renaming specification
\* renameSpecialCharFolders over the directories below a source directory
\* whose own name needs no renaming.  A directory name is a string; a path
\* is the sequence of the names from the source directory down, the source
\* directory itself being the empty path.
Dirname(path) == SubSeq(path, 1, Len(path) - 1)

Basename(path) == path[Len(path)]

\* join(parentDir, name): an empty name adds nothing.
JoinPath(parentDir, name) == IF name = <<>> THEN parentDir ELSE Append(parentDir, name)

\* p is q or an ancestor of q.
IsPrefix(p, q) == Len(p) <= Len(q) /\ SubSeq(q, 1, Len(p)) = p

\* toLowerCase(), for the letters that occur in the names here.
ToLowerCase(s) ==
    [i \in 1..Len(s) |-> IF s[i] = "A" THEN "a" ELSE IF s[i] = "B" THEN "b" ELSE s[i]]

\* `${parentDirKey}|${sanitizedNameKey}`, lines 63-65
DupKey(parentDir, sanitizedName) ==
    <<[i \in 1..Len(parentDir) |-> ToLowerCase(parentDir[i])], ToLowerCase(sanitizedName)>>

NumberedInBrackets(sanitizedName, counter) == sanitizedName \o <<"(">> \o toString(counter) \o <<")">>

\* `${sanitizedName}_${counter}`
Numbered(sanitizedName, counter) == sanitizedName \o <<"_">> \o toString(counter)

\* Deno.stat(path) finds a directory.
IsDirectory(tree, path) == path = <<>> \/ path \in DOMAIN tree

\* The do-while loops of lines 89-104 and 129-144: the first numbered name
\* that does not exist, or the last one tried when the limit is reached.
RECURSIVE AlternatePath(_, _, _, _)
AlternatePath(tree, parentDir, sanitizedName, counter) ==
    LET alternateNewPath == JoinPath(parentDir, Numbered(sanitizedName, counter))
    IN  IF ~IsDirectory(tree, alternateNewPath) THEN alternateNewPath
        ELSE IF counter + 1 < ALTERNATE_LIMIT
             THEN AlternatePath(tree, parentDir, sanitizedName, counter + 1)
             ELSE alternateNewPath

\* The directory tree after oldPath has become newPath: the directory moves
\* with everything below it, and takes the place of the directory newPath
\* held.
Moved(tree, oldPath, newPath) ==
    LET rebase(p) == IF IsPrefix(oldPath, p)
                     THEN newPath \o SubSeq(p, Len(oldPath) + 1, Len(p))
                     ELSE p
        kept == DOMAIN tree \ {newPath}
    IN  [q \in {rebase(p) : p \in kept} |-> tree[CHOOSE p \in kept : rebase(p) = q]]

\* Deno.rename(oldPath, newPath).  osOk is the operating system's answer
\* where it has a choice: a rename to a free path can fail; a rename onto an
\* existing directory fails, except that POSIX replaces an empty directory;
\* a directory cannot be renamed onto one of its ancestors; a path that
\* names no directory cannot be renamed.
DenoRename(tree, oldPath, newPath, osOk) ==
    LET succeeds ==
            /\ osOk
            /\ oldPath \in DOMAIN tree
            /\ ~IsPrefix(newPath, oldPath)
            /\ newPath \in DOMAIN tree =>
                  /\ tree[newPath].files = {}
                  /\ \A p \in DOMAIN tree : IsPrefix(newPath, p) => p = newPath
    IN  [ok |-> succeeds,
         tree |-> IF succeeds THEN Moved(tree, oldPath, newPath) ELSE tree,
         call |-> [old |-> oldPath, to |-> newPath,
                   onto |-> IF IsPrefix(newPath, oldPath) THEN "ancestor"
                            ELSE IF newPath \in DOMAIN tree THEN "directory" ELSE "free",
                   ok |-> succeeds]]

\* Lines 81-169 for one directory: the renames it tries, in order.  The
\* result tells the tree it leaves, whether the directory counts as
\* renamed, the Deno.rename calls made and whether the rename error log is
\* written.
TryRename(tree, entryPath, sanitizedName, os) ==
    LET parentDir == Dirname(entryPath)
        newPath == JoinPath(parentDir, sanitizedName)
        alternateNewPath == AlternatePath(tree, parentDir, sanitizedName, 1)
        numbered == DenoRename(tree, entryPath, alternateNewPath, os[1])
        plain == DenoRename(tree, entryPath, newPath, os[2])
        fallback == DenoRename(tree, entryPath, alternateNewPath, os[3])
        afterPlain ==
            \* line 116, and the catch block of lines 119-169 when it throws
            IF plain.ok
            THEN [tree |-> plain.tree, renamed |-> TRUE, calls |-> {plain.call}, logged |-> FALSE]
            ELSE [tree |-> fallback.tree, renamed |-> fallback.ok,
                  calls |-> {plain.call, fallback.call}, logged |-> TRUE]
    IN  IF IsDirectory(tree, newPath)
        THEN \* lines 85-111; what the rename of line 107 throws is caught at
             \* line 112 and the code goes on to line 116
             IF numbered.ok
             THEN [tree |-> numbered.tree, renamed |-> TRUE, calls |-> {numbered.call},
                   logged |-> FALSE]
             ELSE [afterPlain EXCEPT !.calls = @ \cup {numbered.call}]
        ELSE afterPlain

\* One iteration of the loop of lines 50-171.
VisitDirectory ==
    /\ renamepc = "run"
    /\ dirIndex < Len(dirs)
    /\ \E os \in [1..3 -> BOOLEAN], logOk \in BOOLEAN :
          LET entryPath == dirs[dirIndex + 1]
              dirName == Basename(entryPath)
              parentDir == Dirname(entryPath)
              sanitized == sanitizePath(dirName)
              dupKey == DupKey(parentDir, sanitized)
              isDup == dupKey \in DOMAIN usedNames
              counter == IF isDup THEN usedNames[dupKey] + 1 ELSE 0
              sanitizedName == IF isDup THEN Numbered(sanitized, counter) ELSE sanitized
              done == TryRename(dirTree, entryPath, sanitizedName, os)
              last == dirIndex + 1 = Len(dirs)
          IN  IF parentDir \in renamedPaths \/ dirName = sanitized
              THEN /\ dirIndex' = dirIndex + 1
                   /\ renamepc' = IF last THEN "done" ELSE "run"
                   /\ UNCHANGED <<dirTree, usedNames, renamedPaths, renameCalls>>
              ELSE /\ usedNames' = [k \in DOMAIN usedNames \cup {dupKey} |->
                                       IF k = dupKey THEN counter ELSE usedNames[k]]
                   /\ dirTree' = done.tree
                   /\ renamedPaths' = IF done.renamed THEN renamedPaths \cup {entryPath}
                                      ELSE renamedPaths
                   /\ renameCalls' = renameCalls \cup
                          {[pass |-> renamePass, call |-> c] : c \in done.calls}
                   /\ dirIndex' = dirIndex + 1
                   /\ renamepc' = IF done.logged /\ ~logOk THEN "rejected"
                                  ELSE IF last THEN "done" ELSE "run"
    /\ UNCHANGED <<dirs, renamePass, sanitizeVars, verifyVars, discoveryVars, taskQueue, runVars>>

\* The path separators inside a name.
Separators(name) == Cardinality({j \in 1..Len(name) : name[j] \in {"/", "\\"}})

\* a.path.split(/[\/\\]/).length, less the parts of the source directory
RECURSIVE Depth(_)
Depth(path) ==
    IF path = <<>> THEN 0 ELSE 1 + Separators(Basename(path)) + Depth(Dirname(path))

DeeperLast(a, b) == Depth(a) < Depth(b)

\* depthB - depthA < 0, line 37: a comes before b
DeeperFirst(a, b) == Depth(a) > Depth(b)

\* dirs.sort(...), lines 34-38; Array.prototype.sort is stable.
SortByDepth(walked) ==
    LET n == Len(walked)
        before(j, i) == DeeperFirst(walked[j], walked[i])
                            \/ (~DeeperFirst(walked[i], walked[j]) /\ j < i)
        place(i) == 1 + Cardinality({j \in 1..n : before(j, i)})
    IN  [k \in 1..n |-> walked[CHOOSE i \in 1..n : place(i) = k]]

\* The orders in which walk(sourceDir, {includeDirs: true}) can yield the
\* directories of a tree: a directory comes before what it holds, and what
\* it holds comes before the next directory beside it (lines 22-26).
Walks(paths) ==
    {w \in DistinctLists(paths, Cardinality(paths)) :
        \A i \in 1..Len(w) :
            IF i = 1 THEN Len(w[i]) = 1
            ELSE IsPrefix(Dirname(w[i]), w[i - 1])}

DirNames ==
    {<<"a", " ", "b">>, <<"a", ":", "b">>, <<"a", "\\", "b">>, <<"A", ":", "b">>,
     <<"a", " ", "b", "_", "1">>, <<"(", ")">>, <<"[", "]">>}

\* The path of directory i of a tree given by the name and the parent (0
\* for the source directory) of each directory.
RECURSIVE PathOf(_, _, _)
PathOf(names, parent, i) ==
    IF parent[i] = 0 THEN <<names[i]>> ELSE Append(PathOf(names, parent, parent[i]), names[i])

\* The trees of between one and MaxDirs directories, each holding files of
\* its own or none.
Trees ==
    UNION {{[p \in {PathOf(names, parent, i) : i \in 1..n} |->
                [id |-> p,
                 files |-> IF \E i \in filled : PathOf(names, parent, i) = p
                           THEN {"file"} ELSE {}]] :
              names \in [1..n -> DirNames],
              parent \in {pa \in [1..n -> 0..(n - 1)] : \A i \in 1..n : pa[i] < i},
              filled \in SUBSET (1..n)} :
           n \in 1..MaxDirs}

\* The first pass: the walk has collected the directories of a tree and
\* the sort has put them in order.
RenameInit ==
    /\ dirTree \in Trees
    /\ \E w \in Walks(DOMAIN dirTree) : dirs = SortByDepth(w)
    /\ dirIndex = 0
    /\ renamepc = "run"
    /\ renamePass = 1
    /\ usedNames = <<>>
    /\ renamedPaths = {}
    /\ renameCalls = {}
    /\ NoRun
    /\ SanitizeIdle
    /\ VerifyIdle
    /\ DiscoveryIdle
    /\ QueueIdle

\* The program is run again on the tree the first pass left: lines 19-47
\* of a second call of renameSpecialCharFolders.
WalkAgain ==
    /\ renamepc \in {"done", "rejected"}
    /\ renamePass = 1
    /\ renamePass' = 2
    /\ \E w \in Walks(DOMAIN dirTree) : dirs' = SortByDepth(w)
    /\ dirTree' = [p \in DOMAIN dirTree |-> [dirTree[p] EXCEPT !.id = p]]
    /\ dirIndex' = 0
    /\ renamepc' = "run"
    /\ usedNames' = <<>>
    /\ renamedPaths' = {}
    /\ UNCHANGED <<renameCalls, sanitizeVars, verifyVars, discoveryVars, taskQueue, runVars>>

RenameNext == VisitDirectory \/ WalkAgain

RenameSpec == RenameInit /\ [][RenameNext]_vars

\* ------------------------------ the renaming pass, source directory included
\* walk(sourceDir, {includeDirs: true}) yields sourceDir itself before what
\* it holds (lines 22-26), so the loop of lines 50-171 visits it too, last.
\* Here a path starts at the directory that holds sourceDir; RenameSpec above
\* is the pass below a source directory whose own name sanitizePath keeps.
SourceDirNames == {<<"s">>, <<"s", " ", "(", "1", ")">>}

\* The tree with its source directory, named sourceName, on top.
Rooted(tree, sourceName) ==
    [p \in {<<sourceName>>} \cup {<<sourceName>> \o q : q \in DOMAIN tree} |->
        IF p = <<sourceName>> THEN [id |-> p, files |-> {"file"}]
        ELSE [id |-> p, files |-> tree[Tail(p)].files]]

RootedTrees == {Rooted(tree, r) : tree \in Trees \cup {<<>>}, r \in SourceDirNames}

RootedRenameInit ==
    /\ dirTree \in RootedTrees
    /\ \E w \in Walks(DOMAIN dirTree) : dirs = SortByDepth(w)
    /\ dirIndex = 0
    /\ renamepc = "run"
    /\ renamePass = 1
    /\ usedNames = <<>>
    /\ renamedPaths = {}
    /\ renameCalls = {}
    /\ NoRun
    /\ SanitizeIdle
    /\ VerifyIdle
    /\ DiscoveryIdle
    /\ QueueIdle

RootedRenameSpec == RootedRenameInit /\ [][VisitDirectory]_vars

\* ------------------------------------------- the discovery specification
\* convertToAvif, controller.ts lines 49-103: the walk of the source tree
\* that builds the ConversionTask list.  A path is a sequence of names
\* below the current directory; a name is a sequence of characters.

\* const targetDir = `${sourceDir}_avif`, line 49.
targetDir == <<"s", "_", "a", "v", "i", "f">>

PathSeparators == {"/", "\\"}

\* name.split(/[\/\\]/)
RECURSIVE SplitName(_)
SplitName(name) ==
    IF \A i \in 1..Len(name) : name[i] \notin PathSeparators THEN <<name>>
    ELSE LET k == CHOOSE i \in 1..Len(name) :
                      /\ name[i] \in PathSeparators
                      /\ \A j \in 1..(i - 1) : name[j] \notin PathSeparators
         IN  <<SubSeq(name, 1, k - 1)>> \o SplitName(SubSeq(name, k + 1, Len(name)))

RECURSIVE SplitPath(_)
SplitPath(path) ==
    IF path = <<>> THEN <<>> ELSE SplitName(Head(path)) \o SplitPath(Tail(path))

\* dirname(relativePath).split(/[\/\\]/), line 59: the directory of a file
\* of the source root itself is ".".
PathParts(dir) == IF dir = <<>> THEN << <<".">> >> ELSE SplitPath(dir)

UnsanitizedParts(pathParts) == pathParts

\* pathParts.map(part => sanitizePath(part)), line 60.
SanitizedParts(pathParts) == [i \in 1..Len(pathParts) |-> sanitizePath(pathParts[i])]

\* join(base, ...) normalizes: empty and "." segments vanish and ".."
\* removes the segment before it.
RECURSIVE Normalize(_, _)
Normalize(base, parts) ==
    IF parts = <<>> THEN base
    ELSE LET part == Head(parts)
             next == IF part = <<>> \/ part = <<".">> THEN base
                     ELSE IF part = <<".", ".">>
                          THEN IF base # <<>> /\ base[Len(base)] # <<".", ".">>
                               THEN SubSeq(base, 1, Len(base) - 1)
                               ELSE Append(base, part)
                          ELSE Append(base, part)
         IN  Normalize(next, Tail(parts))

\* join(targetDir, sanitizedParts.join("/")), lines 61-62.
TargetPath(sanitizedParts) == Normalize(<<targetDir>>, sanitizedParts)

\* The directories ensureDir(path) leaves when it succeeds: the path and
\* every directory above it.
Ancestry(path) == {SubSeq(path, 1, k) : k \in 1..Len(path)}

\* The catch block of lines 67-84: ensureDir on each longer prefix of the
\* target path; a failure is logged (lines 80-82) and the loop goes on.
CreateOneByOne(targetPath, partOk) ==
    UNION {Ancestry(SubSeq(targetPath, 1, k)) : k \in {i \in 1..Len(targetPath) : partOk[i]}}

\* The object pushed at lines 86-91.
NewConversionTask(entry, targetPath, sanitizedParts) ==
    [inputPath |-> entry, outputPath |-> targetPath, relativePath |-> sanitizedParts]

\* One iteration of the loop of line 55 for a convertible file: lines 57-91.
\* No statement of the try block of line 57 but the two ensureDir calls can
\* throw, and both are caught inside it.
DiscoverFile ==
    /\ discoverypc = "walk"
    /\ walkPos < Len(walkFiles)
    /\ LET entry == walkFiles[walkPos + 1]
           sanitizedParts == SanitizedParts(PathParts(entry.dir))
           targetPath == TargetPath(sanitizedParts)
       IN  \E batchOk \in BOOLEAN :
           \E partOk \in [1..Len(targetPath) -> BOOLEAN] :
              LET made == IF batchOk THEN Ancestry(targetPath)
                          ELSE CreateOneByOne(targetPath, partOk)
              IN  /\ madeDirs' = madeDirs \cup made
                  /\ tasks' = Append(tasks,
                         NewConversionTask(entry, targetPath, sanitizedParts))
                  /\ dirAttempts' = Append(dirAttempts,
                         [entry |-> entry, batch |-> batchOk, oneByOne |-> ~batchOk,
                          made |-> targetPath \in madeDirs \cup made])
    /\ walkPos' = walkPos + 1
    /\ discoverypc' = IF walkPos + 1 = Len(walkFiles) THEN "done" ELSE "walk"
    /\ UNCHANGED <<walkFiles, sanitizeVars, renameVars, verifyVars, taskQueue, runVars>>

\* basename(task.inputPath): the files of the walk are named by their place
\* in it.
FileName(entry) == toString(entry.file)

\* processFilesByFolder groups the tasks by dirname(task.inputPath)
\* (part_001 lines 19-42), processFilesInFolder sorts each group and numbers
\* it from 0 (folder-processor.ts lines 32-43).
FolderPaths == {tasks[k].inputPath.dir : k \in 1..Len(tasks)}

FolderFiles(folderPath) ==
    LET group == SelectSeq(tasks, LAMBDA t : t.inputPath.dir = folderPath)
    IN  AssignIndex(SortFiles(
            [i \in 1..Len(group) |->
                [name |-> FileName(group[i].inputPath), inputPath |-> group[i].inputPath,
                 outputPath |-> group[i].outputPath, originalIndex |-> 0]]))

\* The tasks of the run as the folder workers hold them.
NumberedTasks ==
    UNION {{FolderFiles(d)[i] : i \in 1..Len(FolderFiles(d))} : d \in FolderPaths}

\* join(sourceDir + "_avif", relative(sourceDir, folderPath)): the folder
\* checkFolderCompletion reads for a source folder (folder-processor.ts lines
\* 151-152); checkDirectoryCompletion looks up the same path
\* (directory-handler.ts lines 253-254).
VerifiedFolderPath(folderPath) == Normalize(<<targetDir>>, folderPath)

\* Names of source directories: left alone by the rename pass because they
\* are clean ("a", "a b"), or because its rename failed ("a:b", "()",
\* "a\b", "..:" ).
SegmentNames ==
    {<<"a">>, <<"a", " ", "b">>, <<"a", ":", "b">>, <<"(", ")">>,
     <<"a", "\\", "b">>, <<".", ".", ":">>}

SourceDirectories == UNION {[1..k -> SegmentNames] : k \in 0..MaxSegments}

\* walk() yields the entries of a directory, the subtree of each
\* subdirectory in between: two files of one directory are separated only
\* by files of that directory and of directories below it.
WalkOrder(entries) ==
    \A i, j \in 1..Len(entries) :
        i < j /\ entries[i].dir = entries[j].dir =>
            \A k \in (i + 1)..(j - 1) : IsPrefix(entries[i].dir, entries[k].dir)

WalkedFiles ==
    {entries \in UNION {[1..n -> [dir : SourceDirectories, file : 1..MaxWalkFiles]] :
                            n \in 1..MaxWalkFiles} :
        /\ \A i \in 1..Len(entries) : entries[i].file = i
        /\ WalkOrder(entries)}

\* The state when the loop of line 55 starts: the target root exists
\* (await ensureDir(targetDir), line 50) and the list is empty (line 52).
DiscoveryInit ==
    /\ walkFiles \in WalkedFiles
    /\ walkPos = 0
    /\ tasks = <<>>
    /\ madeDirs = {<<>>, <<targetDir>>}
    /\ dirAttempts = <<>>
    /\ discoverypc = "walk"
    /\ NoRun
    /\ SanitizeIdle
    /\ RenameIdle
    /\ VerifyIdle
    /\ QueueIdle

DiscoveryNext == DiscoverFile

DiscoverySpec == DiscoveryInit /\ [][DiscoveryNext]_vars

\* ---------------------------------------- the verification specification
\* checkDirectoryCompletion(sourceDir, targetDir) over the directories right
\* below the two roots.  A path is <<root, name>>.
SourceRoot == "source"

TargetRoot == "source_avif"

\* relative(sourceDir, dirPath)
Relative(root, path) == path[2]

\* join(targetDir, relativePath)
Join(root, relativePath) == <<root, relativePath>>

\* The directory discovery gives the files of a source directory as
\* outputPath: every segment of the relative path sanitized
\* (controller.ts lines 58-62).
DiscoveryTargetPath(dirPath) == Join(TargetRoot, sanitizePath(Relative(SourceRoot, dirPath)))

\* The directory the verifier looks up for a source directory
\* (directory-handler.ts lines 253-254).
VerifierTargetPath(dirPath) == Join(TargetRoot, Relative(SourceRoot, dirPath))

\* The Map a walk builds: files counted per parent directory.
CountByDirectory(root, tree) ==
    [path \in {Join(root, d) : d \in DOMAIN tree} |-> tree[Relative(root, path)]]

\* targetDirs.get(targetPath) || 0
GetOrZero(map, key) == IF key \in DOMAIN map THEN map[key] ELSE 0

\* Lines 252-267: one record per source directory whose count differs from
\* the count found under the looked-up target path, in the order of the Map.
RECURSIVE Compare(_, _, _)
Compare(keys, sources, targets) ==
    IF keys = {} THEN <<>>
    ELSE LET dirPath == CHOOSE k \in keys : TRUE
             sourceCount == sources[dirPath]
             targetPath == VerifierTargetPath(dirPath)
             targetCount == GetOrZero(targets, targetPath)
             rest == Compare(keys \ {dirPath}, sources, targets)
         IN  IF sourceCount # targetCount
             THEN <<[sourceDir |-> dirPath, targetDir |-> targetPath,
                     sourceDirFileCount |-> sourceCount,
                     targetDirFileCount |-> targetCount,
                     difference |-> sourceCount - targetCount]>> \o rest
             ELSE rest

\* Both walks of an attempt succeed (lines 203-223); the comparison follows
\* without an await, up to the write of the report.
WalksSucceed ==
    /\ verifypc = "walk"
    /\ LET sources == CountByDirectory(SourceRoot, sourceTree)
           targets == CountByDirectory(TargetRoot, avifTree)
           found == Compare(DOMAIN sources, sources, targets)
       IN  /\ sourceDirs' = sources
           /\ targetDirs' = targets
           /\ mismatches' = found
           /\ verifypc' = IF Len(found) > 0 THEN "report" ELSE "done"
    /\ UNCHANGED <<sourceTree, avifTree, checkAttempt, sanitizeVars, renameVars, discoveryVars, taskQueue,
                   runVars>>

\* A walk throws (lines 224-234): the attempt is repeated, MAX_CHECK_RETRIES
\* times at most, then the function returns without a comparison.
WalkThrows ==
    /\ verifypc = "walk"
    /\ IF checkAttempt < MAX_CHECK_RETRIES
       THEN /\ checkAttempt' = checkAttempt + 1
            /\ UNCHANGED verifypc
       ELSE /\ verifypc' = "done"
            /\ UNCHANGED checkAttempt
    /\ UNCHANGED <<sourceDirs, targetDirs, sourceTree, avifTree, mismatches,
                   sanitizeVars, renameVars, discoveryVars, taskQueue, runVars>>

\* await Deno.writeTextFile(checkErrorsFileName, logContent), lines 270-281
WriteReport ==
    /\ verifypc = "report"
    /\ verifypc' = "done"
    /\ UNCHANGED <<sourceDirs, targetDirs, sourceTree, avifTree, checkAttempt, mismatches,
                   sanitizeVars, renameVars, discoveryVars, taskQueue, runVars>>

\* Directory names at verification: sanitized ones, and one the renaming
\* pass could not rename.
VerifyDirNames == {<<"a">>, <<"a", " ", "b">>, <<"a", ":", "b">>}

\* The trees checkDirectoryCompletion finds: up to MaxVerifyDirs source
\* directories with convertible files, and any number of .avif files in the
\* target directories discovery made for them.
VerifyInit ==
    /\ \E S \in SUBSET VerifyDirNames :
          /\ Cardinality(S) \in 1..MaxVerifyDirs
          /\ sourceTree \in [S -> 1..MaxCount]
          /\ \E T \in SUBSET {sanitizePath(d) : d \in S} : avifTree \in [T -> 1..MaxCount]
    /\ sourceDirs = <<>>
    /\ targetDirs = <<>>
    /\ checkAttempt = 0
    /\ mismatches = <<>>
    /\ verifypc = "walk"
    /\ NoRun
    /\ SanitizeIdle
    /\ RenameIdle
    /\ DiscoveryIdle
    /\ QueueIdle

VerifyNext == WalksSucceed \/ WalkThrows \/ WriteReport

VerifySpec == VerifyInit /\ [][VerifyNext]_vars

\* ------------------------------------- the run followed by its verification
\* convertToAvif from the call of processFilesByFolder to the end of
\* checkDirectoryCompletion (controller.ts lines 124-148).
ProcessingReturnedEarly == poolpc = "running"

\* const result = await processFilesByFolder(...), line 124: the promise of
\* the worker pool is resolved.
ProcessingReturned == resolved >= 1

\* The .avif files of each directory of the target tree.
AvifCounts(tree) ==
    [d \in {p[1] : p \in tree} |-> Cardinality({p \in tree : p[1] = d})]

\* await checkDirectoryCompletion(sourceDir, targetDir), line 144: the call
\* runs up to the walks of its first attempt.  The source tree holds the
\* files discovery found, folder by folder; the target tree is what the
\* workers left.
BeginCheck ==
    /\ ProcessingReturned
    /\ verifypc = "idle"
    /\ sourceTree' = [f \in Folders |-> Len(folderTasks[f].files)]
    /\ avifTree' = AvifCounts(targetTree)
    /\ verifypc' = "walk"
    /\ UNCHANGED <<sourceDirs, targetDirs, checkAttempt, mismatches,
                   sanitizeVars, renameVars, discoveryVars, taskQueue, runVars>>

ControllerNext == Next \/ BeginCheck \/ VerifyNext

ControllerSpec == Init /\ [][ControllerNext]_vars

\* ----------------------------------- the run with the worker count of main
\* main.ts lines 6-19: the value of --workers as parse(Deno.args) gives it.
\* A number is kept in tenths (5 is 0.5); the other kinds carry no number.
WorkersArgs ==
    {[kind |-> k, tenths |-> 0] : k \in {"undefined", "true", "text"}}
        \cup {[kind |-> "number", tenths |-> t] : t \in {0 - 10, 0 - 5, 0, 5, 10, 20}}

\* if (args.workers), line 9: undefined, 0 and "" are falsy; "text" is a
\* non-empty string that is not a number.
Truthy(arg) == arg.kind \in {"true", "text"} \/ (arg.kind = "number" /\ arg.tenths # 0)

\* parseInt(args.workers), line 10: the integer the text of the value
\* starts with, NaN if there is none ("true", "abc"); "0.5" and "-0.5" give 0.
parseInt(arg) ==
    IF arg.kind # "number" THEN NaN
    ELSE IF arg.tenths < 0 THEN 0 - ((0 - arg.tenths) \div 10) ELSE arg.tenths \div 10

\* Lines 9-11 with setMaxConcurrentWorkers: the count the run uses, given the
\* count the module starts with (navigator.hardwareConcurrency || 4).
InstalledWorkers(arg, hardware) == IF Truthy(arg) THEN parseInt(arg) ELSE hardware

\* processFilesByFolder begins with the worker count main has installed.
MainInit ==
    \E nf \in 1..MaxFolders :
        \E sizes \in {sz \in [1..nf -> 1..MaxTasks] : FolderSizesFit(sz)} :
            \E arg \in WorkersArgs :
                \E hardware \in 1..MaxW :
                    LET ft == [f \in 1..nf |-> NewFolderTask(f, WalkNames(sizes[f]))]
                    IN  /\ InitFrom(ft, InstalledWorkers(arg, hardware), {})
                        /\ SanitizeIdle
                        /\ RenameIdle
                        /\ VerifyIdle
                        /\ DiscoveryIdle
                        /\ QueueIdle

MainSpec == MainInit /\ [][Next]_vars

\* ------------------------------------------------- the per-file task queue
\* part_000 is the one-file program: processInParallel (lines 164-185) hands
\* every task to a TaskQueue (lines 32-89) and then waits for it.

\* let MAX_CONCURRENT_TASKS = navigator.hardwareConcurrency || 4, line 29;
\* hardware 0 stands for a count the runtime does not report.
DefaultConcurrentTasks(hardware) == IF hardware = 0 THEN 4 ELSE hardware

\* this.running >= this.maxConcurrent, line 50: false when a side is NaN.
GreaterOrEqual(a, b) == a # NaN /\ b # NaN /\ a >= b

\* runNext from its entry to its first await (lines 50-65): it returns at
\* once when the queue is saturated or empty, and the promise of the add
\* call that started the chain resolves (pc "loop": processInParallel goes
\* on with its loop); otherwise it counts itself in, takes the head of the
\* queue and awaits convertFile.
runNext(q) ==
    IF GreaterOrEqual(q.running, q.maxConcurrent) \/ Len(q.queue) = 0
    THEN [q EXCEPT !.pc = "loop", !.task = 0]
    ELSE LET task == Head(q.queue)
         IN  [q EXCEPT !.running = @ + 1,
                       !.queue = Tail(@),
                       !.task = task,
                       !.runs[task] = @ + 1,
                       !.pc = "convertFile"]

\* Lines 76-80 of runNext, after the try statement: the progress is counted
\* and shown, the task is counted out and runNext is awaited again.
\* showProgress reads Deno.consoleSize() (line 122), which throws without a
\* terminal: the call then rejects before line 79, and with it the add call
\* and processInParallel.
AfterTask(q, shown) ==
    LET counted == [q EXCEPT !.progressInfo.current = @ + 1]
    IN  IF shown
        THEN runNext([counted EXCEPT !.running = @ - 1])
        ELSE [counted EXCEPT !.pc = "rejected"]

\* await queue.add(task), line 175, with add (lines 44-47): the next task
\* of the list is pushed and runNext is awaited.
QueueAdd ==
    /\ taskQueue.pc = "loop"
    /\ taskQueue.added < taskQueue.progressInfo.total
    /\ taskQueue' = runNext([taskQueue EXCEPT !.added = @ + 1,
                                              !.queue = Append(@, taskQueue.added + 1)])
    /\ UNCHANGED <<sanitizeVars, renameVars, verifyVars, discoveryVars, runVars>>

\* convertFile resolves (line 65): line 66, then lines 76-80.
QueueConvertOk ==
    /\ taskQueue.pc = "convertFile"
    /\ \E shown \in BOOLEAN :
           taskQueue' = AfterTask([taskQueue EXCEPT !.results.success = @ + 1], shown)
    /\ UNCHANGED <<sanitizeVars, renameVars, verifyVars, discoveryVars, runVars>>

\* convertFile rejects: the catch clause counts the error and awaits
\* writeErrorLog (lines 67-73).
QueueConvertFails ==
    /\ taskQueue.pc = "convertFile"
    /\ taskQueue' = [taskQueue EXCEPT !.results.errors = @ + 1, !.pc = "writeErrorLog"]
    /\ UNCHANGED <<sanitizeVars, renameVars, verifyVars, discoveryVars, runVars>>

\* writeErrorLog resolves: lines 76-80.
QueueLogOk ==
    /\ taskQueue.pc = "writeErrorLog"
    /\ \E shown \in BOOLEAN : taskQueue' = AfterTask(taskQueue, shown)
    /\ UNCHANGED <<sanitizeVars, renameVars, verifyVars, discoveryVars, runVars>>

\* writeErrorLog rejects (Deno.writeTextFile, line 93) inside the catch
\* clause: runNext rejects at line 69, and with it add and processInParallel.
QueueLogThrows ==
    /\ taskQueue.pc = "writeErrorLog"
    /\ taskQueue' = [taskQueue EXCEPT !.pc = "rejected"]
    /\ UNCHANGED <<sanitizeVars, renameVars, verifyVars, discoveryVars, runVars>>

\* The condition of the loop of waitForAll, line 84.
StillBusy(q) == Len(q.queue) > 0 \/ q.running > 0

\* waitForAll (lines 83-88), called at line 179 once the loop of line 174
\* is through, finds the queue busy and sleeps 100 ms; it wakes to test the
\* condition again.
WaitForAllSleeps ==
    /\ \/ taskQueue.pc = "loop" /\ taskQueue.added = taskQueue.progressInfo.total
       \/ taskQueue.pc = "waitForAll"
    /\ StillBusy(taskQueue)
    /\ taskQueue.polls < MaxPolls
    /\ taskQueue' = [taskQueue EXCEPT !.pc = "waitForAll", !.polls = @ + 1]
    /\ UNCHANGED <<sanitizeVars, renameVars, verifyVars, discoveryVars, runVars>>

\* waitForAll finds the condition false and returns this.results (line 87).
WaitForAllReturns ==
    /\ \/ taskQueue.pc = "loop" /\ taskQueue.added = taskQueue.progressInfo.total
       \/ taskQueue.pc = "waitForAll"
    /\ ~StillBusy(taskQueue)
    /\ taskQueue' = [taskQueue EXCEPT !.pc = "returned"]
    /\ UNCHANGED <<sanitizeVars, renameVars, verifyVars, discoveryVars, runVars>>

\* processInParallel is called with the tasks of the walk (line 230; the
\* program exits at lines 221-224 when there is none) and the count that
\* lines 255-257 leave in MAX_CONCURRENT_TASKS: parseInt(args.workers) when
\* the flag is truthy, as in main.
QueueInit ==
    /\ \E total \in 1..MaxQueueTasks :
           \E arg \in WorkersArgs :
               \E hardware \in 0..MaxW :
                   taskQueue = NewTaskQueue(
                       InstalledWorkers(arg, DefaultConcurrentTasks(hardware)), total)
    /\ NoRun
    /\ SanitizeIdle
    /\ RenameIdle
    /\ VerifyIdle
    /\ DiscoveryIdle

QueueNext ==
    \/ QueueAdd
    \/ QueueConvertOk
    \/ QueueConvertFails
    \/ QueueLogOk
    \/ QueueLogThrows
    \/ WaitForAllSleeps
    \/ WaitForAllReturns

QueueSpec == QueueInit /\ [][QueueNext]_vars

\* ------------------------------------------- the sanitizing specification
\* A string is a sequence of one-character strings.
Strings(alphabet, n) == UNION {[1..k -> alphabet] : k \in 0..n}

PathAlphabet == {"a", "_", " ", "\t", "(", "]", "/", "\\"}

\* The strings passed to sanitizePath: every string up to MaxPathLen over
\* PathAlphabet, and every string up to two characters over the forbidden
\* characters, the whitespace characters and a letter.
SanitizeInputs ==
    Strings(PathAlphabet, MaxPathLen)
        \cup Strings(ForbiddenChars \cup WhitespaceChars \cup {"a"}, 2)

SanitizeInit ==
    /\ sanitizeArg \in SanitizeInputs
    /\ sanitizeOut = <<>>
    /\ NoRun
    /\ RenameIdle
    /\ VerifyIdle
    /\ DiscoveryIdle
    /\ QueueIdle

\* A caller sanitizes a name: sanitizePath(sanitizeArg).
ApplySanitize ==
    /\ sanitizeOut = <<>>
    /\ sanitizeOut' = <<sanitizePath(sanitizeArg)>>
    /\ UNCHANGED <<sanitizeArg, renameVars, verifyVars, discoveryVars, taskQueue, runVars>>

\* A caller sanitizes a name that is itself a result of sanitizePath, as
\* discovery does with the directory names the renaming pass produced.
ReapplySanitize ==
    /\ Len(sanitizeOut) = 1
    /\ sanitizeOut' = Append(sanitizeOut, sanitizePath(sanitizeOut[1]))
    /\ UNCHANGED <<sanitizeArg, renameVars, verifyVars, discoveryVars, taskQueue, runVars>>

SanitizeNext == ApplySanitize \/ ReapplySanitize

SanitizeSpec == SanitizeInit /\ [][SanitizeNext]_vars

\* ================================================================ claims
Tasks == {<<f, id>> \in Folders \X (1..MaxTasks + MaxSortFiles) : id <= Len(folderTasks[f].files)}

\* The task of folder f that discovery numbered id, as the folder holds it now.
TaskOf(f, id) ==
    LET files == folderTasks[f].files
    IN  files[CHOOSE k \in 1..Len(files) : files[k].id = id]

\* Folders that hold a worker slot: dequeued, and their .then or .catch has
\* not run yet.
SlotHolders == {f \in Folders : worker[f].pc \notin {"queued", "done", "failed"}}

\* C1: with a worker count W >= 1, in every reachable state the number of
\* folders dequeued and not yet finished is what activeWorkers counts, and it
\* is at most W.
C1_ConcurrencyBound ==
    MAX_CONCURRENT_WORKERS >= 1 =>
        /\ activeWorkers = Cardinality(SlotHolders)
        /\ activeWorkers <= MAX_CONCURRENT_WORKERS

\* The pool is full while a folder still waits in the queue.
C1_Witness ==
    /\ activeWorkers = MAX_CONCURRENT_WORKERS
    /\ folderQueue # <<>>
    /\ \E f \in Folders : worker[f].pc = "encode"

\* C2 (as claimed): when processFilesByFolder returns, successCount +
\* skippedCount + errorCount is the number of tasks found at discovery, and
\* errorCount counts the files whose first attempt and retries all failed.
C2_CountsAddUp ==
    resolved > 0 =>
        /\ successCount + skippedCount + errorCount = globalProgress.total
        /\ errorCount = Cardinality({t \in Tasks : outcome[t[1]][t[2]] = "error"})

\* A task has reached a terminal outcome: skipped, converted, or failed with
\* every retry used up.
Terminal(f, id) ==
    \/ outcome[f][id] \in {"skipped", "success"}
    \/ /\ outcome[f][id] = "error"
       /\ convertCalls[f][id] = 1 + MAX_RETRY_COUNT
       /\ worker[f].phase = "retry"
       /\ ~(worker[f].pc \in {"stage", "encode", "verify", "move", "log"} /\ Task(f).id = id)

\* C3 (as claimed): every task that reaches a terminal outcome has
\* incremented globalProgress.current exactly once, no task twice, none
\* omitted: current equals total when the pool has drained.
C3_ProgressExactlyOnce ==
    /\ \A t \in Tasks : progressed[t[1]][t[2]] <= 1
    /\ \A t \in Tasks : Terminal(t[1], t[2]) => progressed[t[1]][t[2]] = 1
    /\ resolved > 0 => globalProgress.current = globalProgress.total

\* C4: in every reachable state 0 <= current <= total, and no step decreases
\* current (or changes total).
C4_ProgressMonotone ==
    /\ [](0 <= globalProgress.current /\ globalProgress.current <= globalProgress.total)
    /\ [][/\ globalProgress'.current >= globalProgress.current
          /\ globalProgress'.total = globalProgress.total]_vars

\* The counter has reached total in a run in which a retry succeeded.
C4_Witness ==
    /\ globalProgress.current = globalProgress.total
    /\ \E t \in Tasks : outcome[t[1]][t[2]] = "success" /\ convertCalls[t[1]][t[2]] > 1

Finished(f) == f \in Folders /\ worker[f].pc \in {"done", "failed"}

\* C5: for W >= 1 and a non-empty folder list, when every awaited operation
\* completes, the pool reaches the state with the queue empty and no worker
\* active, and the promise of processFilesByFolder is resolved.
C5_PoolDrains ==
    <>(folderQueue = <<>> /\ activeWorkers = 0 /\ resolved >= 1)

\* Several folders went through the pool and the promise is resolved.
C5_Witness ==
    /\ resolved >= 1
    /\ folderQueue = <<>>
    /\ activeWorkers = 0
    /\ Len(folderTasks) >= 2
    /\ \A f \in Folders : Finished(f)

\* C6: when the processing of a folder raises, the .catch step releases the
\* slot (activeWorkers goes down by one, and up again only for the folder
\* the same step dequeues), and every folder that was in the queue when the
\* folder raised is dequeued and processed to its end.
C6_PoolSurvivesFolderError ==
    /\ [][\A f \in Folders :
            (worker[f].pc = "rejected" /\ worker'[f].pc = "failed") =>
                IF folderQueue = <<>>
                THEN activeWorkers' = activeWorkers - 1
                ELSE /\ activeWorkers' = activeWorkers
                     /\ folderQueue' = Tail(folderQueue)
                     /\ worker'[Head(folderQueue)].pc = "exists"]_vars
    /\ \A g \in 1..MaxFolders :
          (/\ g \in Queued(folderQueue)
           /\ \E f \in Folders : worker[f].pc = "rejected") ~> Finished(g)

\* With one worker, a folder raised and a folder queued behind it was
\* processed to its end all the same.
C6_Witness ==
    /\ MAX_CONCURRENT_WORKERS = 1
    /\ \E f, g \in Folders :
          /\ f < g
          /\ worker[f].pc = "failed"
          /\ worker[g].pc = "done"
          /\ folderTasks[g].completed

\* The entries of error.txt for one task, in the order they were written.
Entries(f, id) == SelectSeq(errorLog[f], LAMBDA e : e.id = id)

FinalEntries(f, id) == SelectSeq(errorLog[f], LAMBDA e : e.id = id /\ e.final)

\* retryFailedFiles has returned for folder f.
RetryPassReturned(f) ==
    worker[f].phase = "retry" /\ worker[f].pc \in {"check", "fulfilled", "done"}

\* The first attempt and MAX_RETRY_COUNT retries of the task all failed.
EveryAttemptFailed(f, id) ==
    outcome[f][id] = "error" /\ convertCalls[f][id] = 1 + MAX_RETRY_COUNT

C8_RerunSkipsAll ==
    (priorTree = AllOutputs(folderTasks) /\ resolved > 0) =>
        /\ skippedCount = globalProgress.total
        /\ successCount = 0
        /\ \A t \in Tasks : convertCalls[t[1]][t[2]] = 0
        /\ targetTree = priorTree

InConvertFile(f) == worker[f].pc \in {"stage", "encode", "verify", "move"}

NaturalRank(name) ==
    CASE name = <<"1">> -> 1
      [] name = <<"0", "1">> -> 1
      [] name = <<"2">> -> 2
      [] name = <<"1", "0">> -> 3
      [] name = <<"a">> -> 4
      [] name = <<"a", "2">> -> 5
      [] name = <<"a", "1", "0">> -> 6
      [] name = <<"B">> -> 7

ThreeDigits(n) ==
    <<DigitChars[(n \div 100) + 1], DigitChars[((n \div 10) % 10) + 1], DigitChars[(n % 10) + 1]>>

\* C10: once a folder is being processed its tasks are in natural filename
\* order (numeric-aware, case-insensitive, ties in walk order), originalIndex
\* is the 0-based position, and a converted task is in the target directory
\* under position + 1 padded to three digits; for the walk order 10, 2, 1 the
\* names are 001 for 1, 002 for 2 and 003 for 10.
C10_NaturalOrderNumbering ==
    \A f \in Folders :
        worker[f].pc # "queued" =>
            LET files == folderTasks[f].files
                n == Len(files)
            IN  /\ {files[k].id : k \in 1..n} = 1..n
                /\ \A i, j \in 1..n :
                      i < j =>
                          \/ NaturalRank(files[i].name) < NaturalRank(files[j].name)
                          \/ /\ NaturalRank(files[i].name) = NaturalRank(files[j].name)
                             /\ files[i].id < files[j].id
                /\ \A k \in 1..n :
                      /\ files[k].originalIndex = k - 1
                      /\ TargetFileName(files[k]) = ThreeDigits(k)
                      /\ outcome[f][files[k].id] = "success" =>
                            <<OutputPath(f), ThreeDigits(k)>> \in targetTree
                /\ targetTree \subseteq {<<OutputPath(f), ThreeDigits(k)>> : k \in 1..n}
                /\ (n = 3 /\ TaskOf(f, 1).name = <<"1", "0">> /\ TaskOf(f, 2).name = <<"2">>
                          /\ TaskOf(f, 3).name = <<"1">>) =>
                      /\ TargetFileName(TaskOf(f, 3)) = <<"0", "0", "1">>
                      /\ TargetFileName(TaskOf(f, 2)) = <<"0", "0", "2">>
                      /\ TargetFileName(TaskOf(f, 1)) = <<"0", "0", "3">>

\* The folder walked as 10, 2, 1 is converted: its three outputs are there.
C10_Witness ==
    \E f \in Folders :
        /\ worker[f].pc = "done"
        /\ Len(folderTasks[f].files) = 3
        /\ TaskOf(f, 1).name = <<"1", "0">>
        /\ TaskOf(f, 2).name = <<"2">>
        /\ TaskOf(f, 3).name = <<"1">>
        /\ folderTasks[f].files[1].name = <<"1">>
        /\ Cardinality(targetTree) = 3

\* The output name of the task discovery numbered id in folder f, worked out
\* from the source tree alone: the walk yields the names n, n-1, .., 1, so
\* the task is at place n + 1 - id of the natural order.
ExpectedOutput(f, id) == <<f, ThreeDigits(Len(folderTasks[f].files) + 1 - id)>>

NotQueued == {f \in Folders : worker[f].pc # "queued"}

\* C16: every folder is taken off the queue exactly once and handed to one
\* call of processSingleFolder: the queue holds exactly the folders not yet
\* started, each once; the number of processSingleFolder calls is the number
\* of started folders; a started folder never returns to the queue; a folder
\* starts only in the step that takes it off the queue; and when the promise
\* is resolved every folder has been started and is finished.
C16_EachFolderDequeuedOnce ==
    /\ [](/\ Queued(folderQueue) = Folders \ NotQueued
          /\ Len(folderQueue) = Cardinality(Queued(folderQueue))
          /\ nextFolderIndex = Cardinality(NotQueued)
          /\ resolved > 0 => \A f \in Folders : Finished(f))
    /\ [][\A f \in Folders :
            /\ worker[f].pc # "queued" =>
                  /\ worker'[f].pc # "queued"
                  /\ f \notin Queued(folderQueue')
                  /\ worker'[f].pc = "exists" => worker[f].pc \in {"exists", "progress"}
            /\ (worker[f].pc = "queued" /\ worker'[f].pc # "queued") =>
                  /\ f \in Queued(folderQueue)
                  /\ f \notin Queued(folderQueue')
                  /\ worker'[f] = BeginFrame]_vars

\* One worker took two folders off the queue, one after the other, and the
\* promise is resolved.
C16_Witness ==
    /\ MAX_CONCURRENT_WORKERS = 1
    /\ Len(folderTasks) = 2
    /\ nextFolderIndex = 2
    /\ resolved = 1
    /\ \A f \in Folders : worker[f].pc = "done"

\* The sum of a counter over the results of the folders 1..n whose
\* processSingleFolder call returned normally and whose .then has run.
RECURSIVE SumDone(_, _)
SumDone(n, field) ==
    IF n = 0 THEN 0
    ELSE SumDone(n - 1, field) + (IF worker[n].pc = "done" THEN worker[n].result[field] ELSE 0)

\* C17: the promise of processFilesByFolder is resolved exactly once: never
\* twice, and eventually once; the step that resolves it leaves the queue
\* empty and activeWorkers 0 with every folder finished; and from then on the
\* aggregate counts are the sums of the results of the folders that finished
\* normally.
C17_ResolvedExactlyOnce ==
    /\ [](resolved <= 1)
    /\ [][resolved' # resolved =>
            /\ resolved' = resolved + 1
            /\ folderQueue' = <<>>
            /\ activeWorkers' = 0
            /\ \A f \in Folders : worker'[f].pc \in {"done", "failed"}]_vars
    /\ [](resolved >= 1 =>
            /\ successCount = SumDone(Len(folderTasks), "successCount")
            /\ errorCount = SumDone(Len(folderTasks), "errorCount")
            /\ skippedCount = SumDone(Len(folderTasks), "skippedCount"))
    /\ <>(resolved = 1)

\* The promise is resolved after one folder returned counts and another
\* raised.
C17_Witness ==
    /\ resolved = 1
    /\ successCount + errorCount + skippedCount > 0
    /\ \E f, g \in Folders : worker[f].pc = "done" /\ worker[g].pc = "failed"

\* C18: folders are started in the order of the grouped list: the started
\* folders are the first nextFolderIndex of the list and the queue holds the
\* rest in list order; and the step in which a worker's .then or .catch
\* releases its slot takes the head of the queue and starts it.
C18_FifoStart ==
    /\ [](/\ NotQueued = 1..nextFolderIndex
          /\ folderQueue = [k \in 1..(Len(folderTasks) - nextFolderIndex) |-> nextFolderIndex + k])
    /\ [][\A f \in Folders :
            (worker[f].pc \in {"fulfilled", "rejected"} /\ worker'[f].pc \in {"done", "failed"}) =>
                IF folderQueue = <<>>
                THEN /\ folderQueue' = <<>>
                     /\ activeWorkers' = activeWorkers - 1
                     /\ nextFolderIndex' = nextFolderIndex
                ELSE /\ folderQueue' = Tail(folderQueue)
                     /\ worker'[Head(folderQueue)] = BeginFrame
                     /\ activeWorkers' = activeWorkers
                     /\ nextFolderIndex' = nextFolderIndex + 1]_vars

\* With one worker, the first folder has just finished and the second has
\* been started by the same step.
C18_Witness ==
    /\ MAX_CONCURRENT_WORKERS = 1
    /\ Len(folderTasks) = 2
    /\ worker[1].pc = "done"
    /\ worker[2] = BeginFrame
    /\ folderQueue = <<>>
    /\ activeWorkers = 1

EncodersInFlight == {f \in Folders : worker[f].pc = "encode"}

C20_BoundedRetries ==
    /\ [](\A t \in Tasks :
            /\ convertCalls[t[1]][t[2]] <= 1 + MAX_RETRY_COUNT
            /\ worker[t[1]].phase = "first" => convertCalls[t[1]][t[2]] <= 1
            /\ Len(FinalEntries(t[1], t[2])) > 0 =>
                  /\ convertCalls[t[1]][t[2]] = 1 + MAX_RETRY_COUNT
                  /\ outcome[t[1]][t[2]] = "error")
    /\ [][\A t \in Tasks :
            /\ convertCalls'[t[1]][t[2]] > convertCalls[t[1]][t[2]] =>
                  /\ outcome[t[1]][t[2]] \notin {"success", "skipped"}
                  /\ convertCalls[t[1]][t[2]] >= 1 => outcome[t[1]][t[2]] = "error"
            /\ Len(FinalEntries(t[1], t[2]))' > Len(FinalEntries(t[1], t[2])) =>
                  /\ convertCalls[t[1]][t[2]] = 1 + MAX_RETRY_COUNT
                  /\ worker[t[1]].attempt = MAX_RETRY_COUNT - 1
                  /\ worker[t[1]].pc = "log"]_vars

\* A task failed, failed its first retry, was converted by its second retry
\* and was left alone afterwards: its folder's worker has gone on.
C20_Witness ==
    \E t \in Tasks :
        /\ convertCalls[t[1]][t[2]] = 3
        /\ outcome[t[1]][t[2]] = "success"
        /\ worker[t[1]].pc \in {"check", "fulfilled", "done"}

\* C14: sanitizePath is idempotent: sanitizing a result of sanitizePath gives
\* that result back, and for every input the two-fold application equals the
\* single one.
C14_SanitizeIdempotent ==
    /\ sanitizePath(sanitizePath(sanitizeArg)) = sanitizePath(sanitizeArg)
    /\ Len(sanitizeOut) >= 1 => sanitizeOut[1] = sanitizePath(sanitizeArg)
    /\ Len(sanitizeOut) = 2 => sanitizeOut[2] = sanitizeOut[1]

\* A name with a forbidden character and whitespace around it has been
\* sanitized twice; it came out changed the first time.
C14_Witness ==
    /\ Len(sanitizeOut) = 2
    /\ sanitizeArg = <<"a", "(", "\t">>
    /\ sanitizeOut[1] = <<"a">>

IsString(s) == s \in Seq(PathAlphabet \cup ForbiddenChars \cup WhitespaceChars \cup {"a"})

\* C15: sanitizePath is total and its results are clean: for every input
\* string it returns a string, and a returned string has no forbidden
\* character, no two whitespace characters in a row and no whitespace at
\* either end.
C15_SanitizeTotalAndClean ==
    /\ IsString(sanitizePath(sanitizeArg))
    /\ \A k \in 1..Len(sanitizeOut) :
          LET out == sanitizeOut[k]
          IN  /\ IsString(out)
              /\ \A i \in 1..Len(out) : out[i] \notin ForbiddenChars
              /\ \A i \in 1..(Len(out) - 1) :
                    ~(out[i] \in WhitespaceChars /\ out[i + 1] \in WhitespaceChars)
              /\ out # <<>> => (out[1] \notin WhitespaceChars /\ out[Len(out)] \notin WhitespaceChars)

\* A name made of forbidden characters and whitespace only was sanitized to
\* the empty string, and a name with a forbidden character between letters
\* would get one space in its place.
C15_Witness ==
    /\ sanitizeArg = <<"/", " ", "\\">>
    /\ sanitizeOut = <<<<>>>>
    /\ sanitizePath(<<"a", "(", "a">>) = <<"a", " ", "a">>

\* The renaming pass has visited every directory the walk collected.
PassOver == renamepc = "done"

\* The name ends in an underscore and a number.
HasNumericSuffix(name) ==
    \E k \in 1..9 : Len(name) >= 2 /\ SubSeq(name, Len(name) - 1, Len(name)) = <<"_", DigitChars[k + 1]>>

\* The paths, now, of the directory the walk collected as entry i.
NamesOf(i) == {n \in DOMAIN dirTree : dirTree[n].id = dirs[i]}

\* Entries i and j of the walk are directories of one parent that sanitize
\* to the same name.
Collide(i, j) ==
    /\ Dirname(dirs[i]) = Dirname(dirs[j])
    /\ sanitizePath(Basename(dirs[i])) = sanitizePath(Basename(dirs[j]))

\* The Deno.rename calls of the pass in progress.
CallsOfPass == {c.call : c \in {d \in renameCalls : d.pass = renamePass}}

\* C12 (as claimed): when two directories of one parent sanitize to the same
\* name, the renaming pass leaves both as directories of their own; when no
\* rename of the pass failed, one of the two has a numeric-suffixed name;
\* and no Deno.rename call of the pass has as destination a path that holds
\* another directory.
C12_CollisionKeepsBoth ==
    /\ \A i, j \in 1..Len(dirs) :
          (i # j /\ Collide(i, j)) =>
              \A c \in CallsOfPass : c.old = dirs[i] => c.onto # "directory"
    /\ PassOver =>
          \A i, j \in 1..Len(dirs) :
              (i < j /\ Collide(i, j)) =>
                  /\ NamesOf(i) # {}
                  /\ NamesOf(j) # {}
                  /\ (\A c \in CallsOfPass : c.ok) =>
                        \E n \in NamesOf(i) \cup NamesOf(j) : HasNumericSuffix(Basename(n))

\* The comparison of checkDirectoryCompletion has run.
Compared == verifypc \in {"report", "done"} /\ sourceDirs # <<>>

\* The mismatch records emitted for a source directory.
RecordsOf(d) == SelectSeq(mismatches, LAMBDA r : r.sourceDir = Join(SourceRoot, d))

\* The number of .avif files in the target directory that holds the outputs
\* of source directory d.
OutputCount(d) ==
    LET dir == Relative(TargetRoot, DiscoveryTargetPath(Join(SourceRoot, d)))
    IN  IF dir \in DOMAIN avifTree THEN avifTree[dir] ELSE 0

\* C13 (as claimed): once checkDirectoryCompletion has compared the trees,
\* every source directory whose count of convertible files differs from the
\* count of .avif files in its target directory has exactly one
\* DirectoryMismatch, with difference = source count - target count, and a
\* directory whose counts agree has none; 5 files against 3 outputs gives
\* one record with difference 2.
C13_OneMismatchPerDifferingDirectory ==
    Compared =>
        \A d \in DOMAIN sourceTree :
            IF sourceTree[d] # OutputCount(d)
            THEN /\ Len(RecordsOf(d)) = 1
                 /\ RecordsOf(d)[1].difference = sourceTree[d] - OutputCount(d)
                 /\ (sourceTree[d] = 5 /\ OutputCount(d) = 3) => RecordsOf(d)[1].difference = 2
            ELSE RecordsOf(d) = <<>>

\* The tasks of folder f whose latest outcome is o.
WithOutcome(f, o) == {id \in 1..Len(folderTasks[f].files) : outcome[f][id] = o}

\* A convertFile call of the retry pass of folder f is in flight.
RetryInFlight(f) ==
    worker[f].phase = "retry" /\ worker[f].pc \in {"stage", "encode", "verify", "move"}

\* C21: the step in which a retry succeeds takes one from the retry pass's
\* count of remaining errors, adds one to its count of successes and leaves
\* ProgressInfo.current alone; a step in which a retry fails changes none of
\* the three; and when the retry pass has returned, the folder's result has
\* every task converted by a retry among its successes and not among its
\* errors.
C21_RetryMovesOneFromErrorsToSuccesses ==
    /\ [](\A f \in Folders :
            /\ RetryInFlight(f) =>
                  /\ worker[f].retry.remainingErrors = Cardinality(WithOutcome(f, "error"))
                  /\ worker[f].result.successCount + worker[f].retry.successCount
                        = Cardinality(WithOutcome(f, "success"))
            /\ worker[f].pc \in {"check", "fulfilled", "done"} =>
                  /\ worker[f].result.errorCount = Cardinality(WithOutcome(f, "error"))
                  /\ worker[f].result.successCount = Cardinality(WithOutcome(f, "success")))
    /\ [][\A f \in Folders :
            (RetryInFlight(f) /\ worker'[f] # worker[f]) =>
                IF outcome'[f] # outcome[f]
                THEN \* the retry succeeded
                     /\ worker'[f].retry.remainingErrors = worker[f].retry.remainingErrors - 1
                     /\ worker'[f].retry.successCount = worker[f].retry.successCount + 1
                     /\ globalProgress'.current = globalProgress.current
                ELSE \* the call goes on, or the retry failed
                     /\ worker'[f].retry = worker[f].retry
                     /\ worker'[f].result = worker[f].result
                     /\ globalProgress'.current = globalProgress.current]_vars

\* Two files of a folder failed in the first pass; the retry pass converted
\* one and used up the retries of the other, and the folder's result counts
\* one success and one error.
C21_Witness ==
    \E f \in Folders :
        /\ worker[f].pc = "check"
        /\ worker[f].phase = "retry"
        /\ worker[f].retry = [successCount |-> 1, remainingErrors |-> 1]
        /\ worker[f].result.successCount = 1
        /\ worker[f].result.errorCount = 1
        /\ globalProgress.current = 2

\* The worker of folder f has been abandoned: its processSingleFolder call
\* raised.
Abandoned(f) == worker[f].pc \in {"rejected", "failed"}

\* C22 (as claimed): a conversion failure never aborts its folder: the step
\* in which the conversion of a task fails in the first pass appends the
\* task to errorFiles and adds one to the folder's error count, and as long
\* as a task behind a failed one has not been attempted the folder's worker
\* is still at work.
C22_FailureDoesNotAbortFolder ==
    /\ [][\A f \in Folders :
            (worker[f].phase = "first" /\ InConvertFile(f) /\ worker'[f].pc = "log") =>
                /\ folderTasks'[f].errorFiles = Append(folderTasks[f].errorFiles, Task(f))
                /\ worker'[f].result.errorCount = worker[f].result.errorCount + 1]_vars
    /\ [](\A f \in Folders :
            \A i, j \in 1..Len(folderTasks[f].files) :
                (/\ i < j
                 /\ outcome[f][folderTasks[f].files[i].id] = "error"
                 /\ outcome[f][folderTasks[f].files[j].id] = "none") => ~Abandoned(f))

\* C23 (as claimed): every folder is marked completed exactly once: the
\* mark is set by the step in which checkFolderCompletion has returned,
\* whatever it found, it is never taken back, and a folder the pool is
\* finished with carries it.
C23_CompletedOnceAfterVerification ==
    /\ [][\A f \in Folders :
            /\ folderTasks[f].completed => folderTasks'[f].completed
            /\ (~folderTasks[f].completed /\ folderTasks'[f].completed) =>
                  /\ worker[f].pc = "check"
                  /\ worker'[f].check \in {"match", "mismatch", "readfailed"}]_vars
    /\ [](\A f \in Folders :
            /\ worker[f].pc \in {"fulfilled", "done"} => folderTasks[f].completed
            /\ Finished(f) => folderTasks[f].completed)

\* The tasks in the errorFiles of folder f.
InErrorFiles(f) ==
    {folderTasks[f].errorFiles[k].id : k \in 1..Len(folderTasks[f].errorFiles)}

\* C24 (as claimed): a task enters errorFiles when its conversion fails and
\* leaves it when a retry of it succeeds: when the folder is marked completed
\* errorFiles holds exactly the tasks whose first attempt and retries all
\* failed.
C24_ErrorFilesAreTheFinalFailures ==
    \A f \in Folders :
        /\ worker[f].pc # "queued" => WithOutcome(f, "error") \subseteq InErrorFiles(f)
        /\ folderTasks[f].completed =>
              InErrorFiles(f) = {id \in 1..Len(folderTasks[f].files) : EveryAttemptFailed(f, id)}

\* The files of the output directory of folder f.
OutputDirectory(tree, f) == {p \in tree : p[1] = OutputPath(f)}

\* convertFile has thrown to its caller in folder f, and the caller has
\* caught the error: it logs it, or goes on with the next attempt, the next
\* failed task or the end of the retry pass.
CaughtByCaller(f) ==
    /\ outcome'[f][Task(f).id] = "error"
    /\ \/ /\ worker[f].phase = "first"
          /\ worker'[f].pc = "log"
          /\ worker'[f].result.errorCount = worker[f].result.errorCount + 1
       \/ /\ worker[f].phase = "retry"
          /\ worker'[f].pc \in {"stage", "log", "progress"}
          /\ worker'[f].retry = worker[f].retry
          /\ \/ worker'[f].attempt = worker[f].attempt + 1
             \/ worker'[f].i = worker[f].i + 1
             \/ worker'[f].pc \in {"log", "progress"}

\* C25: when the encoder exits unsuccessfully, and when it reports success
\* but the staged output file does not exist, convertFile throws: the task
\* is not counted as converted, the output directory of the task is as it
\* was before the call's step, and the folder's worker catches the error
\* and goes on.
C25_EncoderFailureIsACaughtError ==
    [][\A f \in Folders :
          LET encoderFailed == worker[f].pc = "encode" /\ worker'[f].pc \notin {"encode", "verify"}
              noOutput == /\ worker[f].pc = "verify"
                          /\ "temp_file.avif" \notin staging[f].files
                          /\ worker'[f] # worker[f]
          IN  (encoderFailed \/ noOutput) =>
                  /\ CaughtByCaller(f)
                  /\ OutputDirectory(targetTree', f) = OutputDirectory(targetTree, f)
                  /\ FinalOutputPath(Task(f)) \notin targetTree'
                  /\ ~Abandoned(f)'
                  /\ successCount' = successCount]_vars

\* A folder has one task that failed because the encoder exited
\* unsuccessfully and one that failed because the encoder wrote nothing;
\* the worker went on after both and is retrying the first.
C25_Witness ==
    \E f \in Folders :
        /\ worker[f].phase = "retry"
        /\ worker[f].pc = "encode"
        /\ Len(folderTasks[f].errorFiles) = 2
        /\ staging[f] = [exists |-> TRUE, files |-> {"temp_file"}]
        /\ \A id \in InErrorFiles(f) : outcome[f][id] = "error"

\* C30: checkDirectoryCompletion starts only when the worker pool has
\* drained (queue empty, no worker active, every folder finished, the
\* promise resolved); it is started once and, once over, stays over; and no
\* step from its start on calls convertFile or changes a task, a counter, the
\* progress record or a file of the target tree.
C30_VerifierAfterDrainOnceReadOnly ==
    /\ [](verifypc # "idle" =>
            /\ folderQueue = <<>>
            /\ activeWorkers = 0
            /\ resolved = 1
            /\ \A f \in Folders : Finished(f))
    /\ [][/\ verifypc # "idle" => verifypc' # "idle"
          /\ verifypc = "done" => verifypc' = "done"
          /\ (verifypc' = "walk" /\ verifypc # "walk") => (verifypc = "idle" /\ checkAttempt' = 0)
          /\ verifypc' # "idle" =>
                /\ convertCalls' = convertCalls
                /\ folderTasks' = folderTasks
                /\ targetTree' = targetTree
                /\ globalProgress' = globalProgress
                /\ <<successCount, errorCount, skippedCount>>' = <<successCount, errorCount, skippedCount>>
                /\ worker' = worker
                /\ staging' = staging]_vars

\* Two folders went through the pool, a conversion failed for good, and the
\* verifier has reported the folder that misses an output.
C30_Witness ==
    /\ verifypc = "done"
    /\ Len(folderTasks) = 2
    /\ Len(mismatches) = 1
    /\ errorCount = 1
    /\ successCount >= 1

\* C26: the renaming pass visits the directories deepest first: in the list
\* it works through a directory comes before each of its ancestors, so every
\* Deno.rename call is made for the entry being visited, on a path that
\* still names the directory the walk found there, and none of whose
\* ancestors has been renamed in this pass.
C26_DeepestFirstNoStalePath ==
    /\ [](\A i, j \in 1..Len(dirs) :
            /\ i < j => Depth(dirs[i]) >= Depth(dirs[j])
            /\ (i # j /\ IsPrefix(dirs[i], dirs[j])) => j < i)
    /\ [][\A c \in renameCalls' \ renameCalls :
            /\ c.pass = renamePass
            /\ c.call.old = dirs[dirIndex + 1]
            /\ c.call.old \in DOMAIN dirTree
            /\ dirTree[c.call.old].id = c.call.old
            /\ \A q \in renamedPaths : ~IsPrefix(q, c.call.old)]_vars

\* The first pass is over and has renamed a directory and, after it, the
\* directory that holds it.
C26_Witness ==
    /\ renamePass = 1
    /\ PassOver
    /\ \E p, q \in renamedPaths : IsPrefix(p, q) /\ p # q
    /\ \A c \in renameCalls : c.call.ok

\* No rename of the first pass failed.
FirstPassClean == \A c \in renameCalls : c.pass = 1 => c.call.ok

\* C27: a second pass over a tree on which the first pass renamed every
\* directory successfully makes no Deno.rename call; and no pass ever calls
\* Deno.rename for a directory whose name is its own sanitized form.
C27_SecondPassRenamesNothing ==
    /\ (renamePass = 2 /\ FirstPassClean) => \A c \in renameCalls : c.pass = 1
    /\ \A c \in renameCalls :
          Basename(c.call.old) # sanitizePath(Basename(c.call.old))

\* The first pass renamed two directories of one parent, one of them to a
\* numbered name, and the second pass has gone over the tree.
C27_Witness ==
    /\ renamePass = 2
    /\ PassOver
    /\ FirstPassClean
    /\ Cardinality(renameCalls) >= 2
    /\ \E p \in DOMAIN dirTree : HasNumericSuffix(Basename(p))
    /\ \A p \in DOMAIN dirTree : Basename(p) = sanitizePath(Basename(p))

\* C28: for every discovered task, every directory segment of the output
\* directory below the target root is a fixed point of sanitizePath, whether
\* or not the source directories were renamed to their sanitized names.
SegmentsBelowRoot(path) ==
    IF IsPrefix(<<targetDir>>, path) THEN SubSeq(path, 2, Len(path)) ELSE path

C28_OutputSegmentsAreSanitized ==
    \A k \in 1..Len(tasks) :
        LET below == SegmentsBelowRoot(tasks[k].outputPath)
        IN  \A i \in 1..Len(below) : sanitizePath(below[i]) = below[i]

\* A task was discovered in a directory the rename pass left with a name
\* sanitizePath changes, and its output directory lies below the target root.
C28_Witness ==
    \E k \in 1..Len(tasks) :
        /\ \E i \in 1..Len(tasks[k].inputPath.dir) :
               sanitizePath(tasks[k].inputPath.dir[i]) # tasks[k].inputPath.dir[i]
        /\ IsPrefix(<<targetDir>>, tasks[k].outputPath)
        /\ Len(tasks[k].outputPath) >= 2

\* C29: during discovery, a failure to create the output directory of one
\* file does not stop the discovery of the remaining files; the
\* segment-by-segment fallback is then tried, and if that fails too the file
\* is skipped: no ConversionTask is produced for it.
TasksFor(entry) == {k \in 1..Len(tasks) : tasks[k].inputPath = entry}

C29_UncreatableDirectorySkipsFile ==
    /\ discoverypc = "done" => Len(dirAttempts) = Len(walkFiles)
    /\ \A a \in 1..Len(dirAttempts) :
           /\ dirAttempts[a].oneByOne = ~dirAttempts[a].batch
           /\ ~dirAttempts[a].made => TasksFor(dirAttempts[a].entry) = {}
           /\ dirAttempts[a].made => TasksFor(dirAttempts[a].entry) # {}

\* C31: per-folder verification reads the target directory again, up to a
\* small bound, when the read fails, and does not read it again when the
\* read succeeds but the counts differ: a count mismatch is reported after
\* a single read.
FolderChecked(f) == worker[f].check # "none"

C31_FolderCheckRetriesOnlyFailedReads ==
    \A f \in Folders :
        FolderChecked(f) =>
            /\ worker[f].check = "readfailed" => worker[f].reads > 1
            /\ worker[f].reads <= 1 + MAX_CHECK_RETRIES
            /\ worker[f].check = "mismatch" => worker[f].reads = 1

\* C32: for every worker count main can install from --workers (negative
\* and non-numeric ones included) and every non-empty folder list, the
\* started pool never sits idle with work left: whenever the folder queue
\* is non-empty at least one worker is active, so the promise of
\* processFilesByFolder cannot stay pending forever.
C32_NeverIdleWithWorkLeft ==
    poolpc = "running" /\ folderQueue # <<>> => activeWorkers >= 1

\* C33: no two ConversionTasks of a run have the same final output path
\* (output directory plus numbered name): the numbering is injective within
\* a folder and distinct source folders have distinct output directories.
C33_FinalOutputPathsDistinct ==
    \A t, u \in NumberedTasks :
        t.inputPath # u.inputPath => FinalOutputPath(t) # FinalOutputPath(u)

\* C34: whenever convertFile has returned or thrown, on every path (copy to
\* staging failed, encoder failed, staged output missing, move failed,
\* success), the staging directory it created has been removed.
C34_StagingRemovedOnEveryPath ==
    \A f \in Folders : ~InConvertFile(f) => ~staging[f].exists

\* C35: the target folder that verification inspects for a source folder is
\* the directory into which that folder's tasks write their outputs, for
\* every source folder, including those whose names the rename pass failed
\* to sanitize.
C35_VerifierReadsTheOutputDirectory ==
    \A k \in 1..Len(tasks) :
        VerifiedFolderPath(tasks[k].inputPath.dir) = tasks[k].outputPath

\* C36: the rename pass never renames the source root directory itself:
\* when renameSpecialCharFolders(sourceDir) has returned, the path sourceDir
\* still names the root of the tree.
C36_SourceRootKeepsItsName ==
    \A p \in DOMAIN dirTree : Len(p) = 1 => dirTree[p].id = p

\* C37: for every task list and every pattern of conversion outcomes in
\* which no folder's processing raises, the sequential processFilesByFolder
\* and the worker-pool one with W = 1 start the folders in the same order,
\* call convertFile on the same tasks in the same order and return the same
\* counters.  Both are held against one description of the run as a function
\* of the task list and the outcomes: a folder is started only when every
\* folder before it in the list is finished; convertFile is called for the
\* current task of the one folder in flight, in the order of the folder's
\* list and then of its failed files; and the counters returned are the
\* tallies of the final outcomes.
NoFolderRaised == \A f \in Folders : worker[f].pc \notin {"rejected", "failed"}

Tally(o) == Cardinality({t \in Tasks : outcome[t[1]][t[2]] = o})

AtMost(a, b) == a # NaN /\ b # NaN /\ a <= b

C38_TaskQueueBoundedAndComplete ==
    /\ AtMost(taskQueue.running, taskQueue.maxConcurrent)
    /\ \A t \in DOMAIN taskQueue.runs : taskQueue.runs[t] <= 1
    /\ taskQueue.pc = "returned" =>
           /\ taskQueue.queue = <<>>
           /\ taskQueue.running = 0
           /\ \A t \in 1..taskQueue.added : taskQueue.runs[t] = 1
           /\ taskQueue.results.success + taskQueue.results.errors = taskQueue.added
           /\ taskQueue.progressInfo.current = taskQueue.added

====
